---- MODULE Spec2Model ----
(***************************************************************************)
(* A model of the request-pacing and review-pagination engine of the       *)
(* Newegg product scraper: AdaptiveDelay and TokenBucketRateLimiter        *)
(* (rate_limiter.py), UserAgentRotator (user_agents.py) and the review     *)
(* walk and review parser of EnhancedNeweggScraper (enhanced_scraper.py),  *)
(* and the batches of ConcurrentScraper (rate_limiter.py).                 *)
(*                                                                         *)
(* Every component has its own specification over the shared variables:    *)
(*   SpecDelay    AdaptiveDelay.calculate_delay / reset                    *)
(*   SpecRotator  UserAgentRotator.get_next_profile / reset_usage_stats    *)
(*   SpecRate     TokenBucketRateLimiter.record_request, called in sequence*)
(*   SpecBucket   TokenBucketRateLimiter.acquire and record_request,       *)
(*                called from several threads while time passes            *)
(*   SpecWalk     EnhancedNeweggScraper.scrape_product: one job, with its  *)
(*                review walk and the pacing between its steps             *)
(*   SpecParse    EnhancedNeweggScraper._parse_review_sections             *)
(*   SpecBatch    ConcurrentScraper.scrape_products: the tasks of one      *)
(*                batch on the event loop; FairBatch adds its scheduling   *)
(* Python floats are modelled as exact rationals <<numerator, denominator>>*)
(* in lowest terms, so products and clamps are those of the source up to   *)
(* floating-point rounding.                                                *)
(***************************************************************************)
EXTENDS Integers, Sequences, FiniteSets, TLC

VARIABLES
    adaptive_delay,      \* the AdaptiveDelay object
    delay_call,          \* the calls made on it
    user_agent_rotator,  \* the UserAgentRotator object
    rotator_call,        \* the calls made on it
    rate_limiter,        \* the TokenBucketRateLimiter object
    threads,             \* the position of every thread that calls it
    limiter_call,        \* the calls made on it
    scraper,             \* the position and locals of scrape_product
    walk_log,            \* what the job did to the page so far
    parser,              \* the input and the result of _parse_review_sections
    batch                \* the ConcurrentScraper object and its tasks

delay_vars == <<adaptive_delay, delay_call>>
rotator_vars == <<user_agent_rotator, rotator_call>>
limiter_vars == <<rate_limiter, threads, limiter_call>>
walk_vars == <<scraper, walk_log>>
parser_vars == <<parser>>
batch_vars == <<batch>>
vars == <<delay_vars, rotator_vars, limiter_vars, walk_vars, parser_vars, batch_vars>>

not_delay_vars == <<rotator_vars, limiter_vars, walk_vars, parser_vars, batch_vars>>
not_rotator_vars == <<delay_vars, limiter_vars, walk_vars, parser_vars, batch_vars>>
not_limiter_vars == <<delay_vars, rotator_vars, walk_vars, parser_vars, batch_vars>>
not_parser_vars == <<delay_vars, rotator_vars, limiter_vars, walk_vars, batch_vars>>
not_batch_vars == <<delay_vars, rotator_vars, limiter_vars, walk_vars, parser_vars>>

(***************************************************************************)
(* Exact rational arithmetic                                               *)
(***************************************************************************)
RECURSIVE GCD(_, _)
GCD(a, b) == IF b = 0 THEN a ELSE GCD(b, a % b)

\* the rational n/d in lowest terms (d > 0, n >= 0)
Rat(n, d) == LET g == GCD(n, d) IN <<n \div g, d \div g>>

\* r * (p/q), reducing across before multiplying
RMul(r, p, q) ==
    LET g1 == GCD(r[1], q)
        g2 == GCD(p, r[2])
        h1 == IF g1 = 0 THEN 1 ELSE g1
    IN  Rat((r[1] \div h1) * (p \div g2), (r[2] \div g2) * (q \div h1))

\* a/b <= c/d for b, d > 0, by comparing integer parts and then the
\* reciprocals of the fractional parts (no product is formed)
RECURSIVE FracLeq(_, _, _, _)
FracLeq(a, b, c, d) ==
    IF (a \div b) # (c \div d) THEN (a \div b) < (c \div d)
    ELSE IF a % b = 0 THEN TRUE
    ELSE IF c % d = 0 THEN FALSE
    ELSE FracLeq(d, c % d, b, a % b)

RLeq(r, s) == FracLeq(r[1], r[2], s[1], s[2])
RLess(r, s) == ~RLeq(s, r)
\* r + s and r - 1
RAdd(r, s) == Rat(r[1] * s[2] + s[1] * r[2], r[2] * s[2])
RMinusOne(r) == Rat(r[1] - r[2], r[2])

RMin(r, s) == IF RLeq(r, s) THEN r ELSE s
RMax(r, s) == IF RLeq(r, s) THEN s ELSE r

RECURSIVE SeqSum(_)
SeqSum(s) == IF s = <<>> THEN 0 ELSE Head(s) + SeqSum(Tail(s))

(***************************************************************************)
(* Bounds of the exploration                                               *)
(***************************************************************************)
\* calculate_delay / reset calls made on one AdaptiveDelay
MaxDelayCalls == 16
\* of these, the calls that are not a success reporting a sub-second
\* response time: errors, slow or unreported response times, resets
MaxOtherCalls == 3
\* record_request calls made in sequence on one TokenBucketRateLimiter
MaxRequests == 17
\* record_request calls made on the limiter the threads share
MaxBucketRecords == 2
\* seconds that pass between two refills of the bucket
MaxElapsed == 2
\* review pages the target offers
MaxWalkPages == 2
\* get_next_profile calls made on one UserAgentRotator
MaxProfileCalls == 9
\* reset_usage_stats calls made on it
MaxUsageResets == 1
\* the lines of a review content
MaxLines == 3
\* the URLs of a batch
MaxUrls == 4

(***************************************************************************)
(* UserAgentRotator (user_agents.py)                                       *)
(***************************************************************************)
\* len(self.profiles): the profiles _create_browser_profiles returns
NumProfiles == 7
Profiles == 0 .. (NumProfiles - 1)

\* the strategies of the constructor, and a name it does not know
Strategies == {"random", "sequential", "weighted", "unknown"}

\* UserAgentRotator.__init__
NewRotator(strategy) ==
    [ rotation_strategy |-> strategy,
      current_index     |-> 0,
      usage_count       |-> [i \in Profiles |-> 0] ]

MinUsage(r) ==
    CHOOSE c \in {r.usage_count[i] : i \in Profiles} :
        \A i \in Profiles : c <= r.usage_count[i]

MaxUsage(r) ==
    CHOOSE c \in {r.usage_count[i] : i \in Profiles} :
        \A i \in Profiles : c >= r.usage_count[i]

\* a weighted choice that ignores the usage counts
AnyProfile(r) == Profiles

\* candidates of the weighted strategy: the least used profiles
Candidates(r) == {i \in Profiles : r.usage_count[i] = MinUsage(r)}

\* a sequential index that stops at the last profile
IndexNoWrap(r) ==
    IF r.current_index + 1 < NumProfiles THEN r.current_index + 1
    ELSE r.current_index

\* the sequential strategy's next current_index
NextIndex(r) == (r.current_index + 1) % NumProfiles

\* the profile indices get_next_profile may select
Selectable(r) ==
    CASE r.rotation_strategy = "random"     -> Profiles
      [] r.rotation_strategy = "sequential" -> {r.current_index}
      [] r.rotation_strategy = "weighted"   -> Candidates(r)
      [] OTHER                              -> {0}

\* the rotator after get_next_profile selected profile_index
Selected(r, profile_index) ==
    [r EXCEPT !.current_index =
                  IF r.rotation_strategy = "sequential" THEN NextIndex(r) ELSE @,
              !.usage_count[profile_index] = @ + 1]

\* rotator_call: the number of get_next_profile calls so far, the profile
\* the last one returned, whether that profile was a least used one when it
\* was selected, and the number of reset_usage_stats calls
NoRotatorCall == [calls |-> 0, profile |-> 0, was_min |-> FALSE, resets |-> 0]

IdleRotator ==
    /\ user_agent_rotator = NewRotator("random")
    /\ rotator_call = NoRotatorCall

(***************************************************************************)
(* TokenBucketRateLimiter (rate_limiter.py)                                *)
(***************************************************************************)
\* deque(maxlen=100) of response_times and error_times
LimiterWindow == 100
\* total_requests >= 10
MinObservations == 10

\* RateLimitConfig: the defaults, the defaults without adaptive mode, and a
\* slower and smaller bucket
LimiterConfigs ==
    { [ requests_per_second |-> Rat(1, 1), burst_size |-> 5, adaptive |-> TRUE,
        error_threshold |-> Rat(1, 10), success_threshold |-> Rat(9, 10) ],
      [ requests_per_second |-> Rat(1, 1), burst_size |-> 5, adaptive |-> FALSE,
        error_threshold |-> Rat(1, 10), success_threshold |-> Rat(9, 10) ],
      [ requests_per_second |-> Rat(1, 2), burst_size |-> 2, adaptive |-> TRUE,
        error_threshold |-> Rat(1, 10), success_threshold |-> Rat(9, 10) ] }

DefaultLimiterConfig ==
    [ requests_per_second |-> Rat(1, 1), burst_size |-> 5, adaptive |-> TRUE,
      error_threshold |-> Rat(1, 10), success_threshold |-> Rat(9, 10) ]

\* the threads that share one limiter
Threads == {1, 2}

\* the timeout argument of acquire, in seconds; `if timeout and ...` treats
\* None as it treats 0
AcquireTimeouts == {0, 1}

\* TokenBucketRateLimiter.__init__.  elapsed is time.time() - last_refill in
\* seconds; response_times and error_times hold the lengths of the two
\* deques, whose entries no decision reads; lock is the thread that holds
\* self.lock, or 0
NewLimiter(config) ==
    [ config         |-> config,
      tokens         |-> Rat(config.burst_size, 1),
      elapsed        |-> 0,
      refill_rate    |-> config.requests_per_second,
      current_rate   |-> config.requests_per_second,
      error_count    |-> 0,
      success_count  |-> 0,
      response_times |-> 0,
      error_times    |-> 0,
      lock           |-> 0 ]

\* len of a deque(maxlen) after an append
DequeLenAfterAppend(n, maxlen) == IF n >= maxlen THEN maxlen ELSE n + 1

\* a refill that forgets the cap of burst_size
RefillNoCap(l) ==
    [l EXCEPT !.tokens = RAdd(l.tokens, RMul(l.refill_rate, l.elapsed, 1)),
              !.elapsed = 0]

\* _refill_tokens
RefillTokens(l) ==
    [l EXCEPT !.tokens = RMin(Rat(l.config.burst_size, 1),
                              RAdd(l.tokens, RMul(l.refill_rate, l.elapsed, 1))),
              !.elapsed = 0]

\* a speed-up without the ceiling of twice the configured rate
SpeedUpNoCeiling(l) == RMul(l.current_rate, 11, 10)

\* the speed-up of the success branch
SpeedUp(l) ==
    RMin(RMul(l.current_rate, 11, 10), RMul(l.config.requests_per_second, 2, 1))

\* the slow-down of the failure branch
SlowDown(l) ==
    RMax(RMul(l.current_rate, 1, 2), RMul(l.config.requests_per_second, 1, 10))

\* an adjustment that tests its threshold from the first observation on
AdjustsFromFirstCall(l, success) ==
    IF success
    THEN LET m == [l EXCEPT !.success_count = @ + 1,
                            !.response_times =
                                DequeLenAfterAppend(@, LimiterWindow)]
             total_requests == m.success_count + m.error_count
         IN  IF RLess(l.config.success_threshold,
                      Rat(m.success_count, total_requests))
             THEN [m EXCEPT !.current_rate = SpeedUp(l),
                            !.refill_rate = SpeedUp(l)]
             ELSE m
    ELSE LET m == [l EXCEPT !.error_count = @ + 1,
                            !.error_times =
                                DequeLenAfterAppend(@, LimiterWindow)]
             total_requests == m.success_count + m.error_count
         IN  IF RLess(l.config.error_threshold,
                      Rat(m.error_count, total_requests))
             THEN [m EXCEPT !.current_rate = SlowDown(l),
                            !.refill_rate = SlowDown(l)]
             ELSE m

\* an adjustment that forgets to hand the new rate to the bucket
KeepsRefillRate(l, success) ==
    IF success
    THEN LET m == [l EXCEPT !.success_count = @ + 1,
                            !.response_times =
                                DequeLenAfterAppend(@, LimiterWindow)]
             total_requests == m.success_count + m.error_count
         IN  IF /\ total_requests >= MinObservations
                /\ RLess(l.config.success_threshold,
                         Rat(m.success_count, total_requests))
             THEN [m EXCEPT !.current_rate = SpeedUp(l)]
             ELSE m
    ELSE LET m == [l EXCEPT !.error_count = @ + 1,
                            !.error_times =
                                DequeLenAfterAppend(@, LimiterWindow)]
             total_requests == m.success_count + m.error_count
         IN  IF /\ total_requests >= MinObservations
                /\ RLess(l.config.error_threshold,
                         Rat(m.error_count, total_requests))
             THEN [m EXCEPT !.current_rate = SlowDown(l)]
             ELSE m

\* an adjustment that tests both thresholds on every call
TestsBothThresholds(l, success) ==
    LET m == IF success
             THEN [l EXCEPT !.success_count = @ + 1,
                            !.response_times =
                                DequeLenAfterAppend(@, LimiterWindow)]
             ELSE [l EXCEPT !.error_count = @ + 1,
                            !.error_times =
                                DequeLenAfterAppend(@, LimiterWindow)]
        total_requests == m.success_count + m.error_count
    IN  IF total_requests < MinObservations THEN m
        ELSE IF RLess(l.config.success_threshold,
                      Rat(m.success_count, total_requests))
        THEN [m EXCEPT !.current_rate = SpeedUp(l), !.refill_rate = SpeedUp(l)]
        ELSE IF RLess(l.config.error_threshold,
                      Rat(m.error_count, total_requests))
        THEN [m EXCEPT !.current_rate = SlowDown(l), !.refill_rate = SlowDown(l)]
        ELSE m

\* _adaptive_adjustment
AdaptiveAdjustment(l, success) ==
    IF success
    THEN LET m == [l EXCEPT !.success_count = @ + 1,
                            !.response_times =
                                DequeLenAfterAppend(@, LimiterWindow)]
             total_requests == m.success_count + m.error_count
         IN  IF /\ total_requests >= MinObservations
                /\ RLess(l.config.success_threshold,
                         Rat(m.success_count, total_requests))
             THEN [m EXCEPT !.current_rate = SpeedUp(l),
                            !.refill_rate = SpeedUp(l)]
             ELSE m
    ELSE LET m == [l EXCEPT !.error_count = @ + 1,
                            !.error_times =
                                DequeLenAfterAppend(@, LimiterWindow)]
             total_requests == m.success_count + m.error_count
         IN  IF /\ total_requests >= MinObservations
                /\ RLess(l.config.error_threshold,
                         Rat(m.error_count, total_requests))
             THEN [m EXCEPT !.current_rate = SlowDown(l),
                            !.refill_rate = SlowDown(l)]
             ELSE m

\* a record_request that does not read config.adaptive
RecordsAlways(l, success) == AdaptiveAdjustment(l, success)

\* record_request
RecordRequest(l, success) ==
    IF l.config.adaptive THEN AdaptiveAdjustment(l, success) ELSE l

\* a thread outside acquire.  Inside acquire, timeout is its argument,
\* waited is time.time() - start_time in seconds (counted up to timeout + 1,
\* past which the test of the timeout reads no difference), and seen and
\* left are the token counts the returning check found after its refill and
\* left behind
IdleThread ==
    [ pc |-> "idle", timeout |-> 0, waited |-> 0,
      seen |-> Rat(0, 1), left |-> Rat(0, 1) ]

\* limiter_call: the last record_request, the object before it, and the
\* number of record_request calls
NoLimiterCall(l) == [op |-> "none", before |-> l, records |-> 0]

IdleLimiter ==
    /\ rate_limiter = NewLimiter(DefaultLimiterConfig)
    /\ threads = [t \in Threads |-> IdleThread]
    /\ limiter_call = NoLimiterCall(NewLimiter(DefaultLimiterConfig))

(***************************************************************************)
(* EnhancedNeweggScraper (enhanced_scraper.py)                             *)
(***************************************************************************)
\* the selectors _navigate_to_reviews tries in order
NumSelectors == 4

\* rate_limiter.acquire(timeout=5.0) of _rate_limited_delay
PaceTimeout == 5

\* scrape_product's max_review_pages: <<>> is None, <<m>> the limit m
PageLimits == {<<>>} \cup {<<m>> : m \in 1 .. MaxWalkPages}

\* the rate limits a scraper is constructed with: the default, and one token
\* every ten seconds
WalkLimiterConfigs ==
    { DefaultLimiterConfig,
      [ requests_per_second |-> Rat(1, 10), burst_size |-> 1, adaptive |-> TRUE,
        error_threshold |-> Rat(1, 10), success_threshold |-> Rat(9, 10) ] }

\* the numbers of review elements locator(..).all() returns for a page
PageSizes == {1, 2}

\* the elapsed time scrape_product reports, in tenths of a second
JobResponseTimes == {600}

\* _extract_single_review, as far as the walk reads it
Review(review_index, page_number) ==
    [review_index |-> review_index, page_number |-> page_number]

\* the reviews list of _extract_page_reviews: of the elements i .. n of the
\* page, those in ok are extracted, the others raise and are skipped
RECURSIVE PageReviews(_, _, _, _)
PageReviews(i, n, ok, page_number) ==
    IF i > n THEN <<>>
    ELSE IF i \in ok
         THEN <<Review(i, page_number)>> \o PageReviews(i + 1, n, ok, page_number)
         ELSE PageReviews(i + 1, n, ok, page_number)

\* the inner_text of a pagination control: int(text) raises ValueError or
\* gives the number
NotANumber == [numeric |-> FALSE, value |-> 0]
Number(n) == [numeric |-> TRUE, value |-> n]

\* the '.paginations-next' control of the page
NextControls == {"absent", "disabled", "enabled"}

\* the pagination a page shows to a walk that is on current_page: the next
\* control, the active control if there is one, and the labels of the
\* '.paginations li a.button' controls in document order
Paginations(current_page) ==
    [ next   : NextControls,
      active : {<<>>, <<NotANumber>>, <<Number(current_page)>>},
      items  : { <<>>,
                 <<Number(current_page)>>,
                 <<NotANumber, Number(current_page + 1)>>,
                 <<Number(current_page), Number(current_page + 1)>> } ]

\* no call of _navigate_to_next_page has returned
NoPagination == [next |-> "absent", active |-> <<>>, items |-> <<>>]

\* the loop over pagination_items from item i on: the position of the
\* first item whose label is the number next_page, or 0
RECURSIVE ClickItem(_, _, _)
ClickItem(items, i, next_page) ==
    IF i > Len(items) THEN 0
    ELSE IF items[i].numeric /\ items[i].value = next_page THEN i
    ELSE ClickItem(items, i + 1, next_page)

\* the control of the given kind and label, as the log of clicks holds it
Control(kind, label) == [control |-> kind, label |-> label]

\* a navigation that clicks the next control although it is disabled
ClicksDisabledNext(page) ==
    IF page.next # "absent"
    THEN <<Control("next", 0)>>
    ELSE IF page.active # <<>> /\ page.active[1].numeric
    THEN LET next_page == page.active[1].value + 1
             i == ClickItem(page.items, 1, next_page)
         IN  IF i > 0 THEN <<Control("numbered", page.items[i].value)>>
             ELSE <<>>
    ELSE <<>>

\* _navigate_to_next_page: the controls it clicks, in order.  It returns
\* True after a click, and False when it clicked none
Clicks(page) ==
    IF page.next = "enabled"
    THEN <<Control("next", 0)>>
    ELSE IF page.active # <<>> /\ page.active[1].numeric
    THEN LET next_page == page.active[1].value + 1
             i == ClickItem(page.items, 1, next_page)
         IN  IF i > 0 THEN <<Control("numbered", page.items[i].value)>>
             ELSE <<>>
    ELSE <<>>

\* sum(len(page_reviews) for page_reviews in reviews)
RECURSIVE TotalReviews(_)
TotalReviews(reviews) ==
    IF reviews = <<>> THEN 0
    ELSE Len(Head(reviews)) + TotalReviews(Tail(reviews))

\* a limit check that lets the walk go one page past the limit
PastLimit(max_pages, current_page) ==
    max_pages # <<>> /\ current_page > max_pages[1]

\* max_pages is not None and current_page >= max_pages
LimitReached(max_pages, current_page) ==
    max_pages # <<>> /\ current_page >= max_pages[1]

\* the metadata of the result scrape_product returns
Metadata(reviews) ==
    [ total_review_pages |-> Len(reviews),
      total_reviews      |-> TotalReviews(reviews) ]

\* scrape_product(url, max_review_pages) is entered
NewJob(max_pages) ==
    [ pc           |-> "start",
      ret          |-> "",
      max_pages    |-> max_pages,
      selector     |-> 0,
      current_page |-> 0,
      all_reviews  |-> <<>>,
      reviews      |-> <<>>,
      reason       |-> "",
      outcome      |-> "running",
      metadata     |-> Metadata(<<>>) ]

\* walk_log: the page numbers handed to _extract_page_reviews, in order of
\* the calls; whether _rate_limited_delay ran since the last of them, or
\* since _navigate_to_reviews returned True; the sleep of the last
\* _rate_limited_delay ("adaptive" or "fixed"); whether the walk was
\* entered; the number of review elements the last extraction found on
\* its page, with the positions of those whose extraction raised; and the
\* pagination the _navigate_to_next_page that is returning found, with the
\* controls it clicked
NoWalkLog ==
    [ extracts |-> <<>>, paced |-> FALSE, wait |-> "", entered |-> FALSE,
      elements |-> 0, raising |-> {},
      pagination |-> NoPagination, clicked |-> <<>> ]

IdleWalk ==
    /\ scraper = NewJob(<<>>)
    /\ walk_log = NoWalkLog

(***************************************************************************)
(* _parse_review_sections (enhanced_scraper.py, scraper/newegg_scraper.py) *)
(* A str is the sequence of its characters.                                *)
(***************************************************************************)
\* the characters str.strip() removes
Whitespace == {" ", "\t", "\n", "\r", "\f"}

UpperCase ==
    << "A", "B", "C", "D", "E", "F", "G", "H", "I", "J", "K", "L", "M",
       "N", "O", "P", "Q", "R", "S", "T", "U", "V", "W", "X", "Y", "Z" >>

LowerCase ==
    << "a", "b", "c", "d", "e", "f", "g", "h", "i", "j", "k", "l", "m",
       "n", "o", "p", "q", "r", "s", "t", "u", "v", "w", "x", "y", "z" >>

\* str.lower()
Lower(s) ==
    [ i \in 1 .. Len(s) |->
        IF \E k \in 1 .. 26 : UpperCase[k] = s[i]
        THEN LowerCase[CHOOSE k \in 1 .. 26 : UpperCase[k] = s[i]]
        ELSE s[i] ]

RECURSIVE LStrip(_)
LStrip(s) ==
    IF s # <<>> /\ Head(s) \in Whitespace THEN LStrip(Tail(s)) ELSE s

RECURSIVE RStrip(_)
RStrip(s) ==
    IF s # <<>> /\ s[Len(s)] \in Whitespace
    THEN RStrip(SubSeq(s, 1, Len(s) - 1))
    ELSE s

\* str.strip()
Strip(s) == RStrip(LStrip(s))

\* str.startswith(prefix)
StartsWith(s, prefix) ==
    /\ Len(s) >= Len(prefix)
    /\ SubSeq(s, 1, Len(prefix)) = prefix

\* str.replace(old, ''): every occurrence of old, from the left, is removed
RECURSIVE Remove(_, _)
Remove(s, old) ==
    IF s = <<>> THEN <<>>
    ELSE IF StartsWith(s, old)
         THEN Remove(SubSeq(s, Len(old) + 1, Len(s)), old)
         ELSE <<Head(s)>> \o Remove(Tail(s), old)

\* content.split('\n')
RECURSIVE Split(_)
Split(s) ==
    IF \E i \in 1 .. Len(s) : s[i] = "\n"
    THEN LET i == CHOOSE i \in 1 .. Len(s) :
                      /\ s[i] = "\n"
                      /\ \A k \in 1 .. i - 1 : s[k] # "\n"
         IN  <<SubSeq(s, 1, i - 1)>> \o Split(SubSeq(s, i + 1, Len(s)))
    ELSE <<s>>

\* the markers, as the source spells them
ProsMarker == <<"p", "r", "o", "s", ":">>
ConsMarker == <<"c", "o", "n", "s", ":">>
OverallMarker == <<"o", "v", "e", "r", "a", "l", "l", ":">>
OverallReviewMarker ==
    << "o", "v", "e", "r", "a", "l", "l", " ", "r", "e", "v", "i", "e", "w", ":" >>

\* "Not specified"
NotSpecified ==
    <<"N", "o", "t", " ", "s", "p", "e", "c", "i", "f", "i", "e", "d">>

\* the locals of _parse_review_sections before the loop
NoSections ==
    [pros |-> <<>>, cons |-> <<>>, overall_review |-> <<>>, current_section |-> ""]

\* field += (field + ' ' if field else '') + trimmed_line
Continued(field, trimmed_line) ==
    field \o (IF field # <<>> THEN field \o <<" ">> ELSE <<>>) \o trimmed_line

\* one pass of the loop over the lines
ParseLine(st, line) ==
    LET trimmed_line == Strip(line)
        lowered == Lower(trimmed_line)
    IN  IF StartsWith(lowered, ProsMarker)
        THEN [st EXCEPT !.current_section = "pros",
                        !.pros = Strip(Remove(trimmed_line, ProsMarker))]
        ELSE IF StartsWith(lowered, ConsMarker)
        THEN [st EXCEPT !.current_section = "cons",
                        !.cons = Strip(Remove(trimmed_line, ConsMarker))]
        ELSE IF \/ StartsWith(lowered, OverallReviewMarker)
                \/ StartsWith(lowered, OverallMarker)
        THEN [st EXCEPT !.current_section = "overall",
                        !.overall_review =
                            Strip(Remove(Remove(trimmed_line, OverallReviewMarker),
                                         OverallMarker))]
        ELSE IF trimmed_line # <<>> /\ st.current_section # ""
        THEN CASE st.current_section = "pros" ->
                    [st EXCEPT !.pros = Continued(@, trimmed_line)]
               [] st.current_section = "cons" ->
                    [st EXCEPT !.cons = Continued(@, trimmed_line)]
               [] OTHER ->
                    [st EXCEPT !.overall_review = Continued(@, trimmed_line)]
        ELSE st

RECURSIVE ParseLines(_, _)
ParseLines(st, lines) ==
    IF lines = <<>> THEN st
    ELSE ParseLines(ParseLine(st, Head(lines)), Tail(lines))

\* a return that hands the empty field back as it is
KeepsEmpty(field) == field

\* field or "Not specified"
OrNotSpecified(field) == IF field = <<>> THEN NotSpecified ELSE field

\* _parse_review_sections(content): (pros, cons, overall_review)
ParseReviewSections(content) ==
    IF content = <<>>
    THEN [pros |-> NotSpecified, cons |-> NotSpecified,
          overall_review |-> NotSpecified]
    ELSE LET st == ParseLines(NoSections, Split(content))
         IN  [ pros           |-> OrNotSpecified(st.pros),
               cons           |-> OrNotSpecified(st.cons),
               overall_review |-> OrNotSpecified(st.overall_review) ]

\* the lines the contents are made of
ContentLines ==
    { <<"P", "r", "o", "s", ":", " ", "f", "a", "s", "t">>,
      <<"C", "o", "n", "s", ":", " ", "l", "o", "u", "d">>,
      <<"O", "v", "e", "r", "a", "l", "l", ":", " ",
        "g", "o", "o", "d", " ", "v", "a", "l", "u", "e">>,
      <<"p", "r", "o", "s", ":", " ", "f", "a", "s", "t">>,
      <<" ", "c", "o", "n", "s", ":", "\t">>,
      <<"o", "v", "e", "r", "a", "l", "l", " ", "r", "e", "v", "i", "e", "w", ":",
        " ", "o", "k">>,
      <<"c", "h", "e", "a", "p", " ">>,
      <<>> }

\* the contents of n lines, joined by "\n"
RECURSIVE Contents(_)
Contents(n) ==
    IF n = 1 THEN ContentLines
    ELSE { c \o <<"\n">> \o l : c \in Contents(n - 1), l \in ContentLines }

\* the strings _parse_review_sections is called with
ParseInputs == UNION { Contents(n) : n \in 1 .. MaxLines }

\* parser: the content, and the result once the call returned
NewParser(content) ==
    [ content |-> content, returned |-> FALSE,
      result |-> [pros |-> <<>>, cons |-> <<>>, overall_review |-> <<>>] ]

IdleParser == parser = NewParser(<<>>)

(***************************************************************************)
(* ConcurrentScraper (rate_limiter.py)                                     *)
(***************************************************************************)
\* the thread of the asyncio event loop, on which every coroutine runs
EventLoop == 1

\* rate_limiter.acquire(timeout=1.0) of _scrape_single_product
BatchTimeout == 1

\* max_workers
WorkerLimits == {1, 2}

\* the rate limit a ConcurrentScraper is constructed with: one token every
\* three seconds, so that the first acquire is granted at once and the later
\* ones poll and time out
BatchLimiterConfigs ==
    { [ requests_per_second |-> Rat(1, 3), burst_size |-> 1, adaptive |-> TRUE,
        error_threshold |-> Rat(1, 10), success_threshold |-> Rat(9, 10) ] }

\* the URL lists of a batch: job i scrapes URL i
UrlLists == { [i \in 1 .. n |-> i] : n \in 1 .. MaxUrls }

\* one task of _scrape_single_product before it first runs
NewTask ==
    [ pc      |-> "created",
      slot    |-> FALSE,      \* inside `async with self.semaphore`
      token   |-> FALSE,      \* rate_limiter.acquire returned True
      success |-> FALSE,
      reports |-> 0,          \* the record_request calls of its finally block
      flag    |-> FALSE,      \* the success flag of the last of them
      outcome |-> "none" ]    \* what gather collects: "returned" or "raised"

\* ConcurrentScraper(max_workers, rate_limit_config): batch.semaphore is the
\* value of the asyncio.Semaphore and batch.waiters its queue
NewBatch(max_workers) ==
    [ pc          |-> "idle",
      max_workers |-> max_workers,
      semaphore   |-> max_workers,
      waiters     |-> <<>>,
      urls        |-> <<>>,
      tasks       |-> <<>>,
      loop        |-> 0,      \* the task the event loop is running, or 0
      results     |-> <<>>,
      errors      |-> <<>> ]

IdleBatch == batch = NewBatch(3)

\* the value scrape_product returns for a URL
Result(url) == [product_url |-> url]

\* the entry of self.errors for a URL
Error(url) == [url |-> url]

\* a loop over the gathered results that takes the URL of the entry's
\* position among the errors, not of its job
RECURSIVE ErrorsByPosition(_, _, _, _, _)
ErrorsByPosition(tasks, urls, i, results, errors) ==
    IF i > Len(tasks) THEN [results |-> results, errors |-> errors]
    ELSE IF tasks[i].outcome = "raised"
         THEN ErrorsByPosition(tasks, urls, i + 1, results,
                               Append(errors, Error(urls[Len(errors) + 1])))
         ELSE ErrorsByPosition(tasks, urls, i + 1,
                               Append(results, Result(urls[i])), errors)

\* `for i, result in enumerate(results)`: exceptions go to errors with
\* urls[i], everything else to results
RECURSIVE ProcessedResults(_, _, _, _, _)
ProcessedResults(tasks, urls, i, results, errors) ==
    IF i > Len(tasks) THEN [results |-> results, errors |-> errors]
    ELSE IF tasks[i].outcome = "raised"
         THEN ProcessedResults(tasks, urls, i + 1, results,
                               Append(errors, Error(urls[i])))
         ELSE ProcessedResults(tasks, urls, i + 1,
                               Append(results, Result(urls[i])), errors)

(***************************************************************************)
(* AdaptiveDelay (rate_limiter.py)                                         *)
(***************************************************************************)
\* deque(maxlen=50) of AdaptiveDelay.response_times
DelayWindow == 50
\* len(self.response_times) >= 10
DelayMinSamples == 10

\* response times in tenths of a second: 0.5s, 30s and 60s; 0 stands for
\* None / 0.0, which `if last_response_time:` does not record
DelayResponseTimes == {0, 5, 300, 600}

\* (base_delay, max_delay) of the constructor: the defaults AdaptiveDelay()
\* and a narrower pair
DelayConfigs == { <<Rat(1, 1), Rat(10, 1)>>, <<Rat(2, 1), Rat(3, 1)>> }

\* deque.append on a deque with maxlen: the oldest entry is evicted
DequeAppend(q, x, maxlen) ==
    IF Len(q) >= maxlen THEN Append(Tail(q), x) ELSE Append(q, x)

\* AdaptiveDelay.__init__
NewAdaptiveDelay(base, max) ==
    [ base_delay     |-> base,
      max_delay      |-> max,
      current_delay  |-> base,
      response_times |-> <<>>,
      error_count    |-> 0,
      success_count  |-> 0 ]

\* a backoff that halves the delay instead of growing it
BackoffShrinks(d) == RMin(RMul(d.current_delay, 1, 2), d.max_delay)

\* the had_error branch: exponential backoff
BackoffDelay(d) == RMin(RMul(d.current_delay, 3, 2), d.max_delay)

\* easing down without the floor of base_delay * 0.5
EaseDownNoFloor(d) == RMul(d.current_delay, 9, 10)

\* the fast-response branch
EaseDown(d) == RMax(RMul(d.current_delay, 9, 10), RMul(d.base_delay, 1, 2))

\* the slow-response branch
EaseUp(d) == RMin(RMul(d.current_delay, 6, 5), d.max_delay)

\* the window after `if last_response_time: self.response_times.append(..)`
RecordedTimes(d, last_response_time) ==
    IF last_response_time # 0
    THEN DequeAppend(d.response_times, last_response_time, DelayWindow)
    ELSE d.response_times

\* avg_response_time < 1.0 and avg_response_time > 5.0 on a non-empty window
MeanBelow(w, secs) == SeqSum(w) < secs * 10 * Len(w)
MeanAbove(w, secs) == SeqSum(w) > secs * 10 * Len(w)

\* the state of the object after calculate_delay(last_response_time, had_error)
CalculateDelay(d, last_response_time, had_error) ==
    IF had_error
    THEN [d EXCEPT !.error_count = @ + 1,
                   !.current_delay = BackoffDelay(d)]
    ELSE LET w == RecordedTimes(d, last_response_time)
             e == [d EXCEPT !.success_count = @ + 1, !.response_times = w]
         IN  IF Len(w) >= DelayMinSamples
             THEN IF MeanBelow(w, 1) THEN [e EXCEPT !.current_delay = EaseDown(d)]
                  ELSE IF MeanAbove(w, 5) THEN [e EXCEPT !.current_delay = EaseUp(d)]
                  ELSE e
             ELSE e

\* a reset that forgets the latency window
ResetKeepsWindow(d) ==
    [d EXCEPT !.current_delay = d.base_delay,
              !.error_count = 0,
              !.success_count = 0]

\* AdaptiveDelay.reset
ResetDelay(d) ==
    [d EXCEPT !.current_delay = d.base_delay,
              !.response_times = <<>>,
              !.error_count = 0,
              !.success_count = 0]

\* delay_call records the constructor arguments, the last two calls made on
\* the object, the object as it was before the last call, and the counts the
\* bounds are stated on
NoDelayCall(c) ==
    [ config |-> c, op |-> "none", prev_op |-> "none",
      before |-> NewAdaptiveDelay(c[1], c[2]), mean_low |-> FALSE,
      calls |-> 0, others |-> 0 ]

\* the objects EnhancedNeweggScraper.__init__ constructs
DefaultDelay == NewAdaptiveDelay(Rat(1, 1), Rat(10, 1))

IdleDelay ==
    /\ adaptive_delay = DefaultDelay
    /\ delay_call = NoDelayCall(<<Rat(1, 1), Rat(10, 1)>>)

InitDelay ==
    /\ \E c \in DelayConfigs :
         /\ adaptive_delay = NewAdaptiveDelay(c[1], c[2])
         /\ delay_call = NoDelayCall(c)
    /\ IdleRotator
    /\ IdleLimiter
    /\ IdleWalk
    /\ IdleParser
    /\ IdleBatch

\* calculate_delay(..., had_error=True)
CalculateDelayError ==
    /\ delay_call.calls < MaxDelayCalls
    /\ delay_call.others < MaxOtherCalls
    /\ \E t \in DelayResponseTimes :
         adaptive_delay' = CalculateDelay(adaptive_delay, t, TRUE)
    /\ delay_call' = [delay_call EXCEPT !.op = "error",
                                        !.prev_op = delay_call.op,
                                        !.before = adaptive_delay,
                                        !.mean_low = FALSE,
                                        !.calls = @ + 1,
                                        !.others = @ + 1]
    /\ UNCHANGED not_delay_vars

\* calculate_delay(last_response_time, had_error=False)
CalculateDelaySuccess ==
    /\ delay_call.calls < MaxDelayCalls
    /\ \E t \in DelayResponseTimes :
         /\ (t = 0 \/ t >= 10) => delay_call.others < MaxOtherCalls
         /\ adaptive_delay' = CalculateDelay(adaptive_delay, t, FALSE)
         /\ delay_call' =
              [delay_call EXCEPT !.op = "success",
                                 !.prev_op = delay_call.op,
                                 !.before = adaptive_delay,
                                 !.mean_low =
                                     LET w == RecordedTimes(adaptive_delay, t)
                                     IN  w # <<>> /\ MeanBelow(w, 1),
                                 !.calls = @ + 1,
                                 !.others = IF t = 0 \/ t >= 10 THEN @ + 1 ELSE @]
    /\ UNCHANGED not_delay_vars

\* reset()
Reset ==
    /\ delay_call.calls < MaxDelayCalls
    /\ delay_call.others < MaxOtherCalls
    /\ adaptive_delay' = ResetDelay(adaptive_delay)
    /\ delay_call' = [delay_call EXCEPT !.op = "reset",
                                        !.prev_op = delay_call.op,
                                        !.before = adaptive_delay,
                                        !.mean_low = FALSE,
                                        !.calls = @ + 1,
                                        !.others = @ + 1]
    /\ UNCHANGED not_delay_vars

NextDelay == CalculateDelayError \/ CalculateDelaySuccess \/ Reset

SpecDelay == InitDelay /\ [][NextDelay]_vars

(***************************************************************************)
(* Properties of AdaptiveDelay                                             *)
(***************************************************************************)
\* C3: after any sequence of calculate_delay calls the stored current_delay
\* lies between base_delay * 0.5 and max_delay.
DelayWithinBounds ==
    /\ RLeq(RMul(adaptive_delay.base_delay, 1, 2), adaptive_delay.current_delay)
    /\ RLeq(adaptive_delay.current_delay, adaptive_delay.max_delay)

\* fast successes eased the delay down until the floor clamped it
DelayAtFloor ==
    /\ delay_call.op = "success"
    /\ RLess(adaptive_delay.current_delay, delay_call.before.current_delay)
    /\ adaptive_delay.current_delay = RMul(adaptive_delay.base_delay, 1, 2)

\* C4: a call with had_error=True never lowers current_delay, and a
\* successful call whose latency-window mean is below 1.0s never raises it.
DelayMonotone ==
    /\ delay_call.op = "error" =>
          RLeq(delay_call.before.current_delay, adaptive_delay.current_delay)
    /\ (delay_call.op = "success" /\ delay_call.mean_low) =>
          RLeq(adaptive_delay.current_delay, delay_call.before.current_delay)

\* an error call that raised the delay right after a fast success that had
\* lowered it
DelayMovedBothWays ==
    /\ delay_call.op = "error"
    /\ delay_call.prev_op = "success"
    /\ Len(adaptive_delay.response_times) >= DelayMinSamples
    /\ RLess(delay_call.before.current_delay, delay_call.config[1])
    /\ RLess(delay_call.before.current_delay, adaptive_delay.current_delay)

\* C5: reset() returns the object to its construction-time state, and a
\* second reset() leaves the state of the first.
ResetRestoresConstruction ==
    /\ delay_call.op = "reset" =>
          adaptive_delay =
              NewAdaptiveDelay(delay_call.config[1], delay_call.config[2])
    /\ (delay_call.op = "reset" /\ delay_call.prev_op = "reset") =>
          adaptive_delay = delay_call.before

\* reset() called twice in a row on an object that had an eased delay, a
\* filled window and both counters set
ResetTwice ==
    /\ delay_call.op = "reset"
    /\ delay_call.prev_op = "reset"
    /\ delay_call.others = 3
    /\ delay_call.calls > DelayMinSamples + 3

(***************************************************************************)
(* UserAgentRotator: specification                                         *)
(***************************************************************************)
InitRotator ==
    /\ \E st \in Strategies : user_agent_rotator = NewRotator(st)
    /\ rotator_call = NoRotatorCall
    /\ IdleDelay
    /\ IdleLimiter
    /\ IdleWalk
    /\ IdleParser
    /\ IdleBatch

\* get_next_profile()
GetNextProfile ==
    /\ rotator_call.calls < MaxProfileCalls
    /\ \E i \in Selectable(user_agent_rotator) :
         /\ user_agent_rotator' = Selected(user_agent_rotator, i)
         /\ rotator_call' =
              [rotator_call EXCEPT
                  !.calls = @ + 1,
                  !.profile = i,
                  !.was_min = (user_agent_rotator.usage_count[i]
                                   = MinUsage(user_agent_rotator))]
    /\ UNCHANGED not_rotator_vars

\* reset_usage_stats()
ResetUsageStats ==
    /\ rotator_call.resets < MaxUsageResets
    /\ user_agent_rotator' =
          [user_agent_rotator EXCEPT !.usage_count = [i \in Profiles |-> 0]]
    /\ rotator_call' = [rotator_call EXCEPT !.resets = @ + 1]
    /\ UNCHANGED not_rotator_vars

NextRotator == GetNextProfile \/ ResetUsageStats

SpecRotator == InitRotator /\ [][NextRotator]_vars

(***************************************************************************)
(* Properties of UserAgentRotator                                          *)
(***************************************************************************)
\* C6: with the weighted strategy every call selects a profile whose usage
\* count is the current minimum, and the largest and the smallest usage
\* count never differ by more than one.
WeightedIsFair ==
    user_agent_rotator.rotation_strategy = "weighted" =>
        /\ rotator_call.calls > 0 => rotator_call.was_min
        /\ MaxUsage(user_agent_rotator) - MinUsage(user_agent_rotator) <= 1

\* the weighted rotator has gone once round the pool and started again
WeightedSecondRound ==
    /\ user_agent_rotator.rotation_strategy = "weighted"
    /\ rotator_call.resets = 0
    /\ rotator_call.calls = NumProfiles + 2
    /\ MaxUsage(user_agent_rotator) = 2

\* C7: with the sequential strategy the k-th call (k = 0, 1, ...) returns
\* profile k mod n.
SequentialRoundRobin ==
    (user_agent_rotator.rotation_strategy = "sequential"
        /\ rotator_call.calls > 0) =>
        rotator_call.profile = (rotator_call.calls - 1) % NumProfiles

\* the sequential rotator has wrapped: call number n returned profile 0
SequentialWrapped ==
    /\ user_agent_rotator.rotation_strategy = "sequential"
    /\ rotator_call.calls = NumProfiles + 1
    /\ rotator_call.profile = 0

(***************************************************************************)
(* TokenBucketRateLimiter: record_request called in sequence               *)
(***************************************************************************)
InitLimiter ==
    /\ \E c \in LimiterConfigs :
         /\ rate_limiter = NewLimiter(c)
         /\ limiter_call = NoLimiterCall(NewLimiter(c))
    /\ threads = [t \in Threads |-> IdleThread]
    /\ IdleDelay
    /\ IdleRotator
    /\ IdleWalk
    /\ IdleParser
    /\ IdleBatch

Recorded(op) ==
    [limiter_call EXCEPT !.op = op, !.before = rate_limiter, !.records = @ + 1]

\* record_request(True, response_time)
RecordSuccess ==
    /\ limiter_call.records < MaxRequests
    /\ rate_limiter' = RecordRequest(rate_limiter, TRUE)
    /\ limiter_call' = Recorded("success")
    /\ UNCHANGED <<threads, not_limiter_vars>>

\* record_request(False, response_time)
RecordFailure ==
    /\ limiter_call.records < MaxRequests
    /\ rate_limiter' = RecordRequest(rate_limiter, FALSE)
    /\ limiter_call' = Recorded("failure")
    /\ UNCHANGED <<threads, not_limiter_vars>>

NextRate == RecordSuccess \/ RecordFailure

SpecRate == InitLimiter /\ [][NextRate]_vars

(***************************************************************************)
(* TokenBucketRateLimiter: acquire and record_request from several threads *)
(***************************************************************************)
\* acquire(timeout) is entered: start_time = time.time()
AcquireStart(t) ==
    /\ threads[t].pc = "idle"
    /\ \E timeout \in AcquireTimeouts :
         threads' = [threads EXCEPT ![t] =
                        [IdleThread EXCEPT !.pc = "loop", !.timeout = timeout]]
    /\ UNCHANGED <<rate_limiter, limiter_call, not_limiter_vars>>

\* `with self.lock:` is entered
AcquireLock(t) ==
    /\ threads[t].pc = "loop"
    /\ rate_limiter.lock = 0
    /\ rate_limiter' = [rate_limiter EXCEPT !.lock = t]
    /\ threads' = [threads EXCEPT ![t].pc = "locked"]
    /\ UNCHANGED <<limiter_call, not_limiter_vars>>

\* the body of the with block: refill, then consume a token and return
\* True, or return False after the timeout, or leave the block to sleep
AcquireCheck(t) ==
    /\ threads[t].pc = "locked"
    /\ LET l == RefillTokens(rate_limiter)
       IN  IF RLeq(Rat(1, 1), l.tokens)
           THEN /\ rate_limiter' = [l EXCEPT !.tokens = RMinusOne(l.tokens),
                                             !.lock = 0]
                /\ threads' = [threads EXCEPT ![t].pc = "granted",
                                              ![t].seen = l.tokens,
                                              ![t].left = RMinusOne(l.tokens)]
           ELSE IF threads[t].timeout # 0
                   /\ threads[t].waited > threads[t].timeout
           THEN /\ rate_limiter' = [l EXCEPT !.lock = 0]
                /\ threads' = [threads EXCEPT ![t].pc = "timed_out",
                                              ![t].seen = l.tokens,
                                              ![t].left = l.tokens]
           ELSE /\ rate_limiter' = [l EXCEPT !.lock = 0]
                /\ threads' = [threads EXCEPT ![t].pc = "sleep"]
    /\ UNCHANGED <<limiter_call, not_limiter_vars>>

\* time.sleep(0.1) returns
AcquireRetry(t) ==
    /\ threads[t].pc = "sleep"
    /\ threads' = [threads EXCEPT ![t].pc = "loop"]
    /\ UNCHANGED <<rate_limiter, limiter_call, not_limiter_vars>>

\* the caller goes on with the True or False that acquire returned
AcquireReturn(t) ==
    /\ threads[t].pc \in {"granted", "timed_out"}
    /\ threads' = [threads EXCEPT ![t] = IdleThread]
    /\ UNCHANGED <<rate_limiter, limiter_call, not_limiter_vars>>

\* record_request(success, response_time), which takes no lock
ThreadRecord(t) ==
    /\ threads[t].pc = "idle"
    /\ limiter_call.records < MaxBucketRecords
    /\ \E success \in BOOLEAN :
         /\ rate_limiter' = RecordRequest(rate_limiter, success)
         /\ limiter_call' =
              [limiter_call EXCEPT
                  !.op = IF success THEN "success" ELSE "failure",
                  !.records = @ + 1]
    /\ UNCHANGED <<threads, not_limiter_vars>>

\* thread t is inside the loop of acquire
Polling(t) == threads[t].pc \in {"loop", "locked", "sleep"}

\* one second passes
Tick ==
    /\ rate_limiter.elapsed < MaxElapsed
    /\ \A t \in Threads :
         (Polling(t) /\ threads[t].timeout # 0) =>
             threads[t].waited <= threads[t].timeout
    /\ rate_limiter' = [rate_limiter EXCEPT !.elapsed = @ + 1]
    /\ threads' = [t \in Threads |->
                      IF Polling(t) /\ threads[t].waited <= threads[t].timeout
                      THEN [threads[t] EXCEPT !.waited = @ + 1]
                      ELSE threads[t]]
    /\ UNCHANGED <<limiter_call, not_limiter_vars>>

NextBucket ==
    \/ \E t \in Threads :
          \/ AcquireStart(t)
          \/ AcquireLock(t)
          \/ AcquireCheck(t)
          \/ AcquireRetry(t)
          \/ AcquireReturn(t)
          \/ ThreadRecord(t)
    \/ Tick

SpecBucket == InitLimiter /\ [][NextBucket]_vars

(***************************************************************************)
(* Properties of TokenBucketRateLimiter                                    *)
(***************************************************************************)
\* C1: with adaptive mode on, after any sequence of record_request calls
\* current_rate lies between 0.1 and 2.0 times requests_per_second.
RateWithinBounds ==
    rate_limiter.config.adaptive =>
        /\ RLeq(RMul(rate_limiter.config.requests_per_second, 1, 10),
                rate_limiter.current_rate)
        /\ RLeq(rate_limiter.current_rate,
                RMul(rate_limiter.config.requests_per_second, 2, 1))

\* a success whose speed-up the ceiling clamped
RateAtCeiling ==
    /\ rate_limiter.config.adaptive
    /\ limiter_call.op = "success"
    /\ RLess(limiter_call.before.current_rate, rate_limiter.current_rate)
    /\ rate_limiter.current_rate =
          RMul(rate_limiter.config.requests_per_second, 2, 1)

\* C2: the token count is always between 0 and burst_size, and an acquire
\* that returns True saw at least one token and left one token less.
TokensWithinBucket ==
    /\ RLeq(Rat(0, 1), rate_limiter.tokens)
    /\ RLeq(rate_limiter.tokens, Rat(rate_limiter.config.burst_size, 1))
    /\ \A t \in Threads :
         threads[t].pc = "granted" =>
             /\ RLeq(Rat(1, 1), threads[t].seen)
             /\ threads[t].left = RMinusOne(threads[t].seen)
             /\ RLeq(Rat(0, 1), threads[t].left)

\* a thread was granted the last token of a bucket that a refill had
\* filled only in part, while the other thread waits inside acquire
BucketDrained ==
    \E t, u \in Threads :
        /\ threads[t].pc = "granted"
        /\ RLess(threads[t].seen, Rat(2, 1))
        /\ RLess(rate_limiter.tokens, Rat(1, 1))
        /\ rate_limiter.refill_rate # Rat(1, 1)
        /\ threads[u].pc = "sleep"

(***************************************************************************)
(* EnhancedNeweggScraper: one scrape_product job                           *)
(***************************************************************************)
\* the thread that runs the job
Job == 1

InitWalk ==
    /\ \E m \in PageLimits : scraper = NewJob(m)
    /\ walk_log = NoWalkLog
    /\ \E c \in WalkLimiterConfigs :
         /\ rate_limiter = NewLimiter(c)
         /\ limiter_call = NoLimiterCall(NewLimiter(c))
    /\ threads = [t \in Threads |-> IdleThread]
    /\ user_agent_rotator = NewRotator("sequential")
    /\ rotator_call = NoRotatorCall
    /\ IdleDelay
    /\ IdleParser
    /\ IdleBatch

\* _rate_limited_delay is entered by a job that goes on at ret afterwards:
\* rate_limiter.acquire(timeout=5.0) starts
Pace(j, ret) ==
    /\ scraper' = [j EXCEPT !.pc = "pace", !.ret = ret]
    /\ threads' = [threads EXCEPT ![Job] =
                      [IdleThread EXCEPT !.pc = "loop", !.timeout = PaceTimeout]]
    /\ UNCHANGED <<rate_limiter, limiter_call>>

\* the job goes on at pc without pacing
Goes(j) ==
    /\ scraper' = j
    /\ UNCHANGED limiter_vars

\* the job leaves the try block with an exception
Raised(j) == [j EXCEPT !.pc = "except", !.reason = "fault"]

\* a walk that treats the missing entry point as an error
NoEntryRaises(j) == [j EXCEPT !.pc = "except", !.reason = "no entry"]

\* _navigate_to_reviews returned False: _scrape_reviews returns []
NoEntry(j) ==
    [j EXCEPT !.pc = "result", !.reviews = <<>>, !.reason = "no entry"]

\* scrape_product: the first _rate_limited_delay
ScrapeProduct ==
    /\ scraper.pc = "start"
    /\ Pace(scraper, "goto")
    /\ UNCHANGED <<walk_log, delay_vars, rotator_vars, parser_vars, batch_vars>>

\* a _rate_limited_delay that gives up the job when no token came in time
TimeoutRaises ==
    /\ scraper.pc = "pace"
    /\ threads[Job].pc \in {"granted", "timed_out"}
    /\ adaptive_delay' =
          IF threads[Job].pc = "granted"
          THEN CalculateDelay(adaptive_delay, 0, FALSE)
          ELSE adaptive_delay
    /\ threads' = [threads EXCEPT ![Job] = IdleThread]
    /\ scraper' = IF threads[Job].pc = "granted"
                  THEN [scraper EXCEPT !.pc = scraper.ret, !.ret = ""]
                  ELSE Raised(scraper)
    /\ walk_log' = [walk_log EXCEPT
                       !.paced = TRUE,
                       !.wait = IF threads[Job].pc = "granted"
                                THEN "adaptive" ELSE "fixed"]
    /\ UNCHANGED <<rate_limiter, limiter_call, delay_call, rotator_vars,
                   parser_vars, batch_vars>>

\* _rate_limited_delay after acquire returned: the adaptive delay when the
\* token was granted, the fixed wait when it was not
RateLimitedDelay ==
    /\ scraper.pc = "pace"
    /\ threads[Job].pc \in {"granted", "timed_out"}
    /\ adaptive_delay' =
          IF threads[Job].pc = "granted"
          THEN CalculateDelay(adaptive_delay, 0, FALSE)
          ELSE adaptive_delay
    /\ threads' = [threads EXCEPT ![Job] = IdleThread]
    /\ scraper' = [scraper EXCEPT !.pc = scraper.ret, !.ret = ""]
    /\ walk_log' = [walk_log EXCEPT
                       !.paced = TRUE,
                       !.wait = IF threads[Job].pc = "granted"
                                THEN "adaptive" ELSE "fixed"]
    /\ UNCHANGED <<rate_limiter, limiter_call, delay_call, rotator_vars,
                   parser_vars, batch_vars>>

\* a scrape_product that answers a failed navigation with an empty result
NavigationSwallowed(j) ==
    [j EXCEPT !.pc = "result", !.reviews = <<>>, !.reason = "navigation failed"]

\* page.goto raised: the job leaves the try block with its exception
NavigationFailed(j) ==
    [j EXCEPT !.pc = "except", !.reason = "navigation failed"]

\* self.page.goto(url): it loads the page or raises
Goto ==
    /\ scraper.pc = "goto"
    /\ \E loaded \in BOOLEAN :
         scraper' = IF loaded THEN [scraper EXCEPT !.pc = "rotate"]
                    ELSE NavigationFailed(scraper)
    /\ UNCHANGED <<walk_log, limiter_vars, delay_vars, rotator_vars, parser_vars, batch_vars>>

\* `if random.random() < 0.3: self._rotate_user_agent()`
RotateUserAgent ==
    /\ scraper.pc = "rotate"
    /\ \/ UNCHANGED rotator_vars
       \/ \E i \in Selectable(user_agent_rotator) :
            /\ user_agent_rotator' = Selected(user_agent_rotator, i)
            /\ UNCHANGED rotator_call
    /\ scraper' = [scraper EXCEPT !.pc = "product_info"]
    /\ UNCHANGED <<walk_log, limiter_vars, delay_vars, parser_vars, batch_vars>>

\* _extract_product_info: page.content() returns or raises
ExtractProductInfo ==
    /\ scraper.pc = "product_info"
    /\ \E read \in BOOLEAN :
         scraper' = IF read THEN [scraper EXCEPT !.pc = "reviews"]
                    ELSE Raised(scraper)
    /\ UNCHANGED <<walk_log, limiter_vars, delay_vars, rotator_vars, parser_vars, batch_vars>>

\* _scrape_reviews calls _navigate_to_reviews: _scroll_down(800), then the
\* first selector
NavigateToReviews ==
    /\ scraper.pc = "reviews"
    /\ \E scrolled \in BOOLEAN :
         scraper' = IF scrolled
                    THEN [scraper EXCEPT !.pc = "selector", !.selector = 1]
                    ELSE Raised(scraper)
    /\ UNCHANGED <<walk_log, limiter_vars, delay_vars, rotator_vars, parser_vars, batch_vars>>

\* the selector loop is over without a click: _navigate_to_reviews returns
\* False and _scrape_reviews returns []
NoEntryPoint ==
    /\ scraper.pc = "selector"
    /\ scraper.selector > NumSelectors
    /\ scraper' = NoEntry(scraper)
    /\ UNCHANGED <<walk_log, limiter_vars, delay_vars, rotator_vars, parser_vars, batch_vars>>

\* one selector is tried: the locator finds nothing or raises, and the loop
\* goes on; or it finds the element, which is scrolled into view and
\* followed by _rate_limited_delay
TrySelector ==
    /\ scraper.pc = "selector"
    /\ scraper.selector <= NumSelectors
    /\ \E found \in {"absent", "raises", "present"} :
         IF found = "present"
         THEN Pace(scraper, "visible")
         ELSE Goes([scraper EXCEPT !.selector = @ + 1])
    /\ UNCHANGED <<walk_log, delay_vars, rotator_vars, parser_vars, batch_vars>>

\* element.is_visible() and element.click(): an invisible element or a
\* click that raises sends the loop to the next selector
ClickReviewsTab ==
    /\ scraper.pc = "visible"
    /\ \E seen \in {"invisible", "raises", "clicked"} :
         IF seen = "clicked"
         THEN Pace(scraper, "scroll")
         ELSE Goes([scraper EXCEPT !.pc = "selector", !.selector = @ + 1])
    /\ UNCHANGED <<walk_log, delay_vars, rotator_vars, parser_vars, batch_vars>>

\* _scroll_down(600) inside the try block: _navigate_to_reviews returns
\* True, or the scroll raises and the loop goes to the next selector
EnterReviews ==
    /\ scraper.pc = "scroll"
    /\ \E scrolled \in BOOLEAN :
         IF scrolled
         THEN /\ scraper' = [scraper EXCEPT !.pc = "page",
                                           !.all_reviews = <<>>,
                                           !.current_page = 1]
              /\ walk_log' = [walk_log EXCEPT !.entered = TRUE,
                                             !.paced = FALSE]
         ELSE /\ scraper' = [scraper EXCEPT !.pc = "selector",
                                           !.selector = @ + 1]
              /\ UNCHANGED walk_log
    /\ UNCHANGED <<limiter_vars, delay_vars, rotator_vars, parser_vars, batch_vars>>

\* a loop that extracts the page without _rate_limited_delay
ScrapePageUnpaced ==
    /\ scraper.pc = "page"
    /\ Goes([scraper EXCEPT !.pc = "extract"])
    /\ UNCHANGED <<walk_log, delay_vars, rotator_vars, parser_vars, batch_vars>>

\* the top of the while loop: _rate_limited_delay before the extraction
ScrapePage ==
    /\ scraper.pc = "page"
    /\ Pace(scraper, "extract")
    /\ UNCHANGED <<walk_log, delay_vars, rotator_vars, parser_vars, batch_vars>>

\* a walk that appends the empty page before it ends
AppendsEmptyPage(j, page_reviews) ==
    LET k == [j EXCEPT !.all_reviews = Append(@, page_reviews)]
    IN  IF page_reviews = <<>>
        THEN [k EXCEPT !.pc = "result",
                       !.reviews = k.all_reviews,
                       !.reason = "empty page"]
        ELSE IF LimitReached(j.max_pages, j.current_page)
        THEN [k EXCEPT !.pc = "result",
                       !.reviews = k.all_reviews,
                       !.reason = "limit reached"]
        ELSE [k EXCEPT !.pc = "next"]

\* the job after _extract_page_reviews returned page_reviews: the page is
\* appended, or the walk ends on the empty page; then the page limit
AfterExtraction(j, page_reviews) ==
    IF page_reviews # <<>>
    THEN LET k == [j EXCEPT !.all_reviews = Append(@, page_reviews)]
         IN  IF LimitReached(j.max_pages, j.current_page)
             THEN [k EXCEPT !.pc = "result",
                            !.reviews = k.all_reviews,
                            !.reason = "limit reached"]
             ELSE [k EXCEPT !.pc = "next"]
    ELSE [j EXCEPT !.pc = "result",
                   !.reviews = j.all_reviews,
                   !.reason = "empty page"]

\* walk_log after an extraction that found n elements, of which those in
\* raising were skipped
Extracted(n, raising) ==
    [walk_log EXCEPT !.extracts = Append(@, scraper.current_page),
                     !.paced = FALSE,
                     !.elements = n,
                     !.raising = raising]

\* _extract_page_reviews(current_page): wait_for_selector times out and the
\* page is empty; or locator(..).all() raises; or it returns n elements, of
\* which those in ok are extracted
ExtractPageReviews ==
    /\ scraper.pc = "extract"
    /\ \/ /\ scraper' = AfterExtraction(scraper, <<>>)
          /\ walk_log' = Extracted(0, {})
       \/ /\ scraper' = Raised(scraper)
          /\ walk_log' = Extracted(0, {})
       \/ \E n \in PageSizes : \E ok \in SUBSET (1 .. n) :
            /\ scraper' = AfterExtraction(scraper,
                              PageReviews(1, n, ok, scraper.current_page))
            /\ walk_log' = Extracted(n, (1 .. n) \ ok)
    /\ UNCHANGED <<limiter_vars, delay_vars, rotator_vars, parser_vars, batch_vars>>

\* _navigate_to_next_page up to its click: the enabled next button or the
\* control labelled with the active number + 1 is clicked; or there is
\* neither and it returns False; or a locator or a click raises
NavigateToNextPage ==
    /\ scraper.pc = "next"
    /\ \/ \E page \in Paginations(scraper.current_page) :
            /\ Clicks(page) # <<>> => scraper.current_page < MaxWalkPages
            /\ scraper' = IF Clicks(page) # <<>>
                          THEN [scraper EXCEPT !.pc = "clicked"]
                          ELSE [scraper EXCEPT !.pc = "result",
                                               !.reviews = scraper.all_reviews,
                                               !.reason = "no next page"]
            /\ walk_log' = [walk_log EXCEPT !.pagination = page,
                                            !.clicked = Clicks(page)]
       \/ /\ scraper' = Raised(scraper)
          /\ UNCHANGED walk_log
    /\ UNCHANGED <<limiter_vars, delay_vars, rotator_vars, parser_vars,
                   batch_vars>>

\* _navigate_to_next_page after its click: _rate_limited_delay, after which
\* it returns True
PaceAfterClick ==
    /\ scraper.pc = "clicked"
    /\ Pace(scraper, "advance")
    /\ walk_log' = [walk_log EXCEPT !.pagination = NoPagination,
                                    !.clicked = <<>>]
    /\ UNCHANGED <<delay_vars, rotator_vars, parser_vars, batch_vars>>

\* a loop that forgets current_page += 1
StaysOnPage ==
    /\ scraper.pc = "advance"
    /\ scraper' = [scraper EXCEPT !.pc = "page"]
    /\ UNCHANGED <<walk_log, limiter_vars, delay_vars, rotator_vars,
                   parser_vars, batch_vars>>

\* current_page += 1
NextPage ==
    /\ scraper.pc = "advance"
    /\ scraper' = [scraper EXCEPT !.pc = "page", !.current_page = @ + 1]
    /\ UNCHANGED <<walk_log, limiter_vars, delay_vars, rotator_vars, parser_vars, batch_vars>>

\* the result is built, the success is recorded and the result returned
ReturnResult ==
    /\ scraper.pc = "result"
    /\ scraper' = [scraper EXCEPT !.pc = "done",
                                  !.outcome = "returned",
                                  !.metadata = Metadata(scraper.reviews)]
    /\ rate_limiter' = RecordRequest(rate_limiter, TRUE)
    /\ limiter_call' = Recorded("success")
    /\ \E response_time \in JobResponseTimes :
         adaptive_delay' = CalculateDelay(adaptive_delay, response_time, FALSE)
    /\ walk_log' = [walk_log EXCEPT !.pagination = NoPagination,
                                    !.clicked = <<>>]
    /\ UNCHANGED <<threads, delay_call, rotator_vars, parser_vars, batch_vars>>

\* the except block: the failure is recorded and the exception raised again
RaiseError ==
    /\ scraper.pc = "except"
    /\ scraper' = [scraper EXCEPT !.pc = "done", !.outcome = "raised"]
    /\ rate_limiter' = RecordRequest(rate_limiter, FALSE)
    /\ limiter_call' = Recorded("failure")
    /\ \E response_time \in JobResponseTimes :
         adaptive_delay' = CalculateDelay(adaptive_delay, response_time, TRUE)
    /\ UNCHANGED <<threads, walk_log, delay_call, rotator_vars, parser_vars, batch_vars>>

NextWalk ==
    \/ ScrapeProduct
    \/ AcquireLock(Job)
    \/ AcquireCheck(Job)
    \/ AcquireRetry(Job)
    \/ Tick
    \/ RateLimitedDelay
    \/ Goto
    \/ RotateUserAgent
    \/ ExtractProductInfo
    \/ NavigateToReviews
    \/ TrySelector
    \/ ClickReviewsTab
    \/ EnterReviews
    \/ NoEntryPoint
    \/ ScrapePage
    \/ ExtractPageReviews
    \/ NavigateToNextPage
    \/ PaceAfterClick
    \/ NextPage
    \/ ReturnResult
    \/ RaiseError

SpecWalk == InitWalk /\ [][NextWalk]_vars

(***************************************************************************)
(* Properties of the review walk                                           *)
(***************************************************************************)
\* the walk is over: _scrape_reviews returned or the job is finished
WalkOver == scraper.pc \in {"result", "done"}

\* the page numbers 1 .. n in order
Pages(n) == [i \in 1 .. n |-> i]

\* C8: when no entry-point selector succeeds the walk ends at once with
\* zero pages and no extraction, raises nothing, and scrape_product returns
\* a result.
NoEntryMeansNoPages ==
    /\ (scraper.pc = "selector" /\ scraper.selector > NumSelectors) =>
          walk_log.extracts = <<>>
    /\ scraper.reason = "no entry" =>
          /\ WalkOver
          /\ walk_log.extracts = <<>>
          /\ ~walk_log.entered
          /\ scraper.reviews = <<>>
          /\ scraper.outcome # "raised"
          /\ scraper.pc = "done" =>
                /\ scraper.outcome = "returned"
                /\ scraper.metadata = Metadata(<<>>)

\* a job returned its result after all four selectors failed, one of them
\* on an element that was found and paced for but was not visible
ReturnedWithoutEntry ==
    /\ scraper.pc = "done"
    /\ scraper.reason = "no entry"
    /\ scraper.outcome = "returned"
    /\ walk_log.paced

\* C9: a walk that ends on the empty page N returns exactly the N - 1
\* non-empty pages before it; page N is not appended and every page was
\* extracted once.
EmptyPageEndsWalk ==
    scraper.reason = "empty page" =>
        /\ WalkOver
        /\ Len(scraper.reviews) = scraper.current_page - 1
        /\ \A i \in 1 .. Len(scraper.reviews) : scraper.reviews[i] # <<>>
        /\ walk_log.extracts = Pages(scraper.current_page)
        /\ scraper.outcome # "raised"
        /\ scraper.pc = "done" =>
              scraper.metadata.total_review_pages = scraper.current_page - 1

\* a job returned one page after its second page came back empty
ReturnedBeforeEmptyPage ==
    /\ scraper.pc = "done"
    /\ scraper.reason = "empty page"
    /\ scraper.current_page = 2
    /\ scraper.metadata.total_review_pages = 1

\* C10: with a page limit M >= 1 the walk never goes past page M, and a walk
\* that ends for the 'limit reached' reason returns exactly M pages without
\* raising; every finished walk has one of the distinct reasons.
LimitEndsWalk ==
    /\ scraper.max_pages # <<>> =>
          /\ scraper.current_page <= scraper.max_pages[1]
          /\ Len(scraper.all_reviews) <= scraper.max_pages[1]
    /\ scraper.reason = "limit reached" =>
          /\ WalkOver
          /\ scraper.max_pages # <<>>
          /\ Len(scraper.reviews) = scraper.max_pages[1]
          /\ walk_log.extracts = Pages(scraper.max_pages[1])
          /\ scraper.outcome # "raised"
    /\ scraper.pc = "result" =>
          scraper.reason \in
              {"no entry", "empty page", "limit reached", "no next page"}
    /\ (WalkOver /\ scraper.max_pages # <<>>
           /\ scraper.reason \notin {"no entry", "empty page", "no next page"}
           /\ scraper.outcome # "raised") =>
          scraper.reason = "limit reached"

\* a job with the limit 2 returned two pages although a next page was there
ReturnedAtLimit ==
    /\ scraper.pc = "done"
    /\ scraper.reason = "limit reached"
    /\ scraper.max_pages = <<2>>
    /\ scraper.metadata.total_review_pages = 2

(***************************************************************************)
(* _parse_review_sections: one call                                        *)
(***************************************************************************)
InitParse ==
    /\ \E content \in ParseInputs : parser = NewParser(content)
    /\ IdleDelay
    /\ IdleRotator
    /\ IdleLimiter
    /\ IdleWalk
    /\ IdleBatch

\* pros, cons, overall_review = self._parse_review_sections(content)
ParseContent ==
    /\ ~parser.returned
    /\ parser' = [parser EXCEPT !.returned = TRUE,
                                !.result = ParseReviewSections(parser.content)]
    /\ UNCHANGED not_parser_vars

NextParse == ParseContent

SpecParse == InitParse /\ [][NextParse]_vars

(***************************************************************************)
(* ConcurrentScraper: one scrape_products batch                            *)
(***************************************************************************)
InitBatch ==
    /\ \E max_workers \in WorkerLimits : batch = NewBatch(max_workers)
    /\ \E c \in BatchLimiterConfigs :
         /\ rate_limiter = NewLimiter(c)
         /\ limiter_call = NoLimiterCall(NewLimiter(c))
    /\ threads = [t \in Threads |-> IdleThread]
    /\ IdleDelay
    /\ IdleRotator
    /\ IdleWalk
    /\ IdleParser

not_batch_limiter_vars == <<delay_vars, rotator_vars, walk_vars, parser_vars>>

\* scrape_products(urls, scraper_factory): a task is created for every URL
\* and gather is awaited
ScrapeProducts ==
    /\ batch.pc = "idle"
    /\ \E urls \in UrlLists :
         batch' = [batch EXCEPT !.pc = "gather",
                                !.urls = urls,
                                !.tasks = [i \in 1 .. Len(urls) |-> NewTask]]
    /\ UNCHANGED <<limiter_vars, not_batch_limiter_vars>>

Jobs == 1 .. Len(batch.tasks)

\* the semaphore is entered and rate_limiter.acquire(timeout=1.0) is called,
\* which blocks the event loop
Admitted(b, j) ==
    /\ batch' = [b EXCEPT !.semaphore = @ - 1,
                          !.tasks[j].slot = TRUE,
                          !.tasks[j].pc = "acquire",
                          !.loop = j]
    /\ threads' = [threads EXCEPT ![EventLoop] =
                      [IdleThread EXCEPT !.pc = "loop", !.timeout = BatchTimeout]]

\* a semaphore that lets a task in without a free slot
EntersAnyway(b) == TRUE

\* the semaphore has a free slot and nobody queues for it
SlotFree(b) == b.semaphore > 0 /\ b.waiters = <<>>

\* `async with self.semaphore`: the task enters, or queues for a slot
EnterSemaphore(j) ==
    /\ batch.pc = "gather"
    /\ batch.loop = 0
    /\ batch.tasks[j].pc = "created"
    /\ IF SlotFree(batch)
       THEN Admitted(batch, j)
       ELSE /\ batch' = [batch EXCEPT !.waiters = Append(@, j),
                                      !.tasks[j].pc = "waiting"]
            /\ UNCHANGED threads
    /\ UNCHANGED <<rate_limiter, limiter_call, not_batch_limiter_vars>>

\* a released slot goes to the first task of the queue
WakeWaiter(j) ==
    /\ batch.loop = 0
    /\ batch.tasks[j].pc = "waiting"
    /\ batch.waiters # <<>>
    /\ Head(batch.waiters) = j
    /\ batch.semaphore > 0
    /\ Admitted([batch EXCEPT !.waiters = Tail(@)], j)
    /\ UNCHANGED <<rate_limiter, limiter_call, not_batch_limiter_vars>>

\* acquire returned.  True: scraper_factory is called and raises, or
\* _run_scraper is awaited.  False: asyncio.sleep(0.1) is awaited
AcquireReturned(j) ==
    /\ batch.loop = j
    /\ batch.tasks[j].pc = "acquire"
    /\ threads[EventLoop].pc \in {"granted", "timed_out"}
    /\ IF threads[EventLoop].pc = "timed_out"
       THEN batch' = [batch EXCEPT !.tasks[j].pc = "backoff", !.loop = 0]
       ELSE \E made \in BOOLEAN :
              batch' = IF made
                       THEN [batch EXCEPT !.tasks[j].token = TRUE,
                                          !.tasks[j].pc = "scrape",
                                          !.loop = 0]
                       ELSE [batch EXCEPT !.tasks[j].token = TRUE,
                                          !.tasks[j].success = FALSE,
                                          !.tasks[j].outcome = "raised",
                                          !.tasks[j].pc = "finally"]
    /\ threads' = [threads EXCEPT ![EventLoop] = IdleThread]
    /\ UNCHANGED <<rate_limiter, limiter_call, not_batch_limiter_vars>>

\* asyncio.sleep(0.1) is over: acquire is called again
RetryAcquire(j) ==
    /\ batch.loop = 0
    /\ batch.tasks[j].pc = "backoff"
    /\ batch' = [batch EXCEPT !.tasks[j].pc = "acquire", !.loop = j]
    /\ threads' = [threads EXCEPT ![EventLoop] =
                      [IdleThread EXCEPT !.pc = "loop", !.timeout = BatchTimeout]]
    /\ UNCHANGED <<rate_limiter, limiter_call, not_batch_limiter_vars>>

\* scraper.scrape_product(url) returns or raises in its executor thread
RunScraper(j) ==
    /\ batch.tasks[j].pc = "scrape"
    /\ \E outcome \in {"returned", "raised"} :
         batch' = [batch EXCEPT !.tasks[j].pc = "resume",
                                !.tasks[j].outcome = outcome]
    /\ UNCHANGED <<limiter_vars, not_batch_limiter_vars>>

\* the task goes on after the await: success = True, or the except block
Resume(j) ==
    /\ batch.loop = 0
    /\ batch.tasks[j].pc = "resume"
    /\ batch' = [batch EXCEPT
                    !.tasks[j].pc = "finally",
                    !.tasks[j].success = (batch.tasks[j].outcome = "returned"),
                    !.loop = j]
    /\ UNCHANGED <<limiter_vars, not_batch_limiter_vars>>

\* a finally block that reports only the jobs that returned
ReportsSuccessOnly(j) ==
    /\ batch.loop = j
    /\ batch.tasks[j].pc = "finally"
    /\ IF batch.tasks[j].success
       THEN /\ rate_limiter' = RecordRequest(rate_limiter, TRUE)
            /\ limiter_call' = [limiter_call EXCEPT !.op = "success",
                                                    !.records = @ + 1]
            /\ batch' = [batch EXCEPT !.tasks[j].pc = "release",
                                      !.tasks[j].reports = @ + 1,
                                      !.tasks[j].flag = TRUE]
       ELSE /\ batch' = [batch EXCEPT !.tasks[j].pc = "release"]
            /\ UNCHANGED <<rate_limiter, limiter_call>>
    /\ UNCHANGED <<threads, not_batch_limiter_vars>>

\* the finally block: record_request(success, response_time)
Finally(j) ==
    /\ batch.loop = j
    /\ batch.tasks[j].pc = "finally"
    /\ rate_limiter' = RecordRequest(rate_limiter, batch.tasks[j].success)
    /\ limiter_call' =
         [limiter_call EXCEPT
             !.op = IF batch.tasks[j].success THEN "success" ELSE "failure",
             !.records = @ + 1]
    /\ batch' = [batch EXCEPT !.tasks[j].pc = "release",
                              !.tasks[j].reports = @ + 1,
                              !.tasks[j].flag = batch.tasks[j].success]
    /\ UNCHANGED <<threads, not_batch_limiter_vars>>

\* a task that gives its slot back only when its scrape returned
KeepsSlotOnError(j) ==
    /\ batch.loop = j
    /\ batch.tasks[j].pc = "release"
    /\ batch' = IF batch.tasks[j].success
                THEN [batch EXCEPT !.semaphore = @ + 1,
                                   !.tasks[j].slot = FALSE,
                                   !.tasks[j].pc = "done",
                                   !.loop = 0]
                ELSE [batch EXCEPT !.tasks[j].pc = "done", !.loop = 0]
    /\ UNCHANGED <<limiter_vars, not_batch_limiter_vars>>

\* the end of `async with self.semaphore`: the slot is released and the
\* task is done
ReleaseSlot(j) ==
    /\ batch.loop = j
    /\ batch.tasks[j].pc = "release"
    /\ batch' = [batch EXCEPT !.semaphore = @ + 1,
                              !.tasks[j].slot = FALSE,
                              !.tasks[j].pc = "done",
                              !.loop = 0]
    /\ UNCHANGED <<limiter_vars, not_batch_limiter_vars>>

\* gather returned: the results are sorted into self.results and
\* self.errors, and scrape_products returns
ProcessResults ==
    /\ batch.pc = "gather"
    /\ \A j \in Jobs : batch.tasks[j].pc = "done"
    /\ LET p == ProcessedResults(batch.tasks, batch.urls, 1,
                                  batch.results, batch.errors)
       IN  batch' = [batch EXCEPT !.pc = "returned",
                                  !.results = p.results,
                                  !.errors = p.errors]
    /\ UNCHANGED <<limiter_vars, not_batch_limiter_vars>>

NextBatch ==
    \/ ScrapeProducts
    \/ \E j \in Jobs :
          \/ EnterSemaphore(j)
          \/ WakeWaiter(j)
          \/ AcquireReturned(j)
          \/ RetryAcquire(j)
          \/ RunScraper(j)
          \/ Resume(j)
          \/ Finally(j)
          \/ ReleaseSlot(j)
    \/ AcquireLock(EventLoop)
    \/ AcquireCheck(EventLoop)
    \/ AcquireRetry(EventLoop)
    \/ Tick
    \/ ProcessResults

SpecBatch == InitBatch /\ [][NextBatch]_vars

\* The batch under the scheduling of the event loop and of the executor:
\* every coroutine that can run is run, every scrape_product call ends,
\* and time passes while acquire polls.  The body of acquire's with block
\* always ends: []<>(pc # "locked") is WF_vars(AcquireCheck(EventLoop)),
\* whose guard is pc = "locked" and which alone leaves that position.
FairBatch ==
    /\ SpecBatch
    /\ WF_vars(ScrapeProducts)
    /\ \A j \in 1 .. MaxUrls :
          /\ WF_vars(j \in Jobs /\ EnterSemaphore(j))
          /\ WF_vars(j \in Jobs /\ WakeWaiter(j))
          /\ WF_vars(j \in Jobs /\ AcquireReturned(j))
          /\ WF_vars(j \in Jobs /\ RetryAcquire(j))
          /\ WF_vars(j \in Jobs /\ RunScraper(j))
          /\ WF_vars(j \in Jobs /\ Resume(j))
          /\ WF_vars(j \in Jobs /\ Finally(j))
          /\ WF_vars(j \in Jobs /\ ReleaseSlot(j))
    /\ WF_vars(AcquireLock(EventLoop))
    /\ WF_vars(AcquireRetry(EventLoop))
    /\ []<>(threads[EventLoop].pc # "locked")
    /\ WF_vars(Tick)
    /\ WF_vars(ProcessResults)

(***************************************************************************)
(* Properties of _parse_review_sections                                    *)
(***************************************************************************)
\* the last line of the content, stripped
LastLine(content) == LET lines == Split(content) IN Strip(lines[Len(lines)])

\* what follows the first Len(marker) characters of the line, stripped; the
\* sentinel stands for an empty remainder
AfterMarker(line, marker) ==
    LET rest == Strip(SubSeq(line, Len(marker) + 1, Len(line)))
    IN  IF rest = <<>> THEN NotSpecified ELSE rest

\* some line of the content starts with the marker, in any letter case
HasMarker(content, marker) ==
    LET lines == Split(content)
    IN  \E i \in 1 .. Len(lines) : StartsWith(Lower(Strip(lines[i])), marker)

\* 'Pros: fast\nCons: loud\nOverall: good value'
ExampleContent ==
    <<"P", "r", "o", "s", ":", " ", "f", "a", "s", "t", "\n",
      "C", "o", "n", "s", ":", " ", "l", "o", "u", "d", "\n",
      "O", "v", "e", "r", "a", "l", "l", ":", " ",
      "g", "o", "o", "d", " ", "v", "a", "l", "u", "e">>

\* C11: a line that starts with a marker in any letter case sets its field
\* to the rest of the line, the marker removed (stated for the last line of
\* the content, which no later line changes); the example content gives
\* 'fast', 'loud' and 'good value'.
MarkersAreRemoved ==
    parser.returned =>
        LET line == LastLine(parser.content)
            lowered == Lower(line)
        IN  /\ StartsWith(lowered, ProsMarker) =>
                  parser.result.pros = AfterMarker(line, ProsMarker)
            /\ StartsWith(lowered, ConsMarker) =>
                  parser.result.cons = AfterMarker(line, ConsMarker)
            /\ StartsWith(lowered, OverallMarker) =>
                  parser.result.overall_review = AfterMarker(line, OverallMarker)
            /\ StartsWith(lowered, OverallReviewMarker) =>
                  parser.result.overall_review =
                      AfterMarker(line, OverallReviewMarker)
            /\ parser.content = ExampleContent =>
                  parser.result =
                      [ pros |-> <<"f", "a", "s", "t">>,
                        cons |-> <<"l", "o", "u", "d">>,
                        overall_review |->
                            <<"g", "o", "o", "d", " ", "v", "a", "l", "u", "e">> ]

\* C12: no field of the result is the empty string; a field whose marker
\* is on no line is the sentinel, and the empty content gives three
\* sentinels.
NeverEmptyField ==
    parser.returned =>
        /\ parser.result.pros # <<>>
        /\ parser.result.cons # <<>>
        /\ parser.result.overall_review # <<>>
        /\ ~HasMarker(parser.content, ProsMarker) =>
              parser.result.pros = NotSpecified
        /\ ~HasMarker(parser.content, ConsMarker) =>
              parser.result.cons = NotSpecified
        /\ ~HasMarker(parser.content, OverallMarker)
              /\ ~HasMarker(parser.content, OverallReviewMarker) =>
              parser.result.overall_review = NotSpecified
        /\ parser.content = <<>> =>
              parser.result = [ pros |-> NotSpecified, cons |-> NotSpecified,
                                overall_review |-> NotSpecified ]

\* a call returned the sentinel for a cons: line that has no text after the
\* marker, next to an overall field that has text
SentinelForBareMarker ==
    /\ parser.returned
    /\ HasMarker(parser.content, ConsMarker)
    /\ parser.result.cons = NotSpecified
    /\ parser.result.pros = NotSpecified
    /\ parser.result.overall_review # NotSpecified

\* the line starts, stripped and in any letter case, with the marker
MarkerLine(line, marker) == StartsWith(Lower(Strip(line)), marker)

\* the line starts with one of the markers
AnyMarkerLine(line) ==
    \/ MarkerLine(line, ProsMarker)
    \/ MarkerLine(line, ConsMarker)
    \/ MarkerLine(line, OverallMarker)
    \/ MarkerLine(line, OverallReviewMarker)

\* the non-empty ones of the stripped lines, in their order, joined by one
\* space
RECURSIVE JoinedBySpace(_)
JoinedBySpace(lines) ==
    IF lines = <<>> THEN <<>>
    ELSE LET first == Strip(Head(lines))
             rest == JoinedBySpace(Tail(lines))
         IN  IF first = <<>> THEN rest
             ELSE IF rest = <<>> THEN first
             ELSE first \o <<" ">> \o rest

\* line k of the content starts with the marker, the lines after it start
\* with no marker and are not all empty
ContinuedFrom(lines, k, marker) ==
    /\ MarkerLine(lines[k], marker)
    /\ \A i \in k + 1 .. Len(lines) : ~AnyMarkerLine(lines[i])
    /\ \E i \in k + 1 .. Len(lines) : Strip(lines[i]) # <<>>

\* the rest of marker line k followed by the lines after it
MarkerAndContinuation(lines, k, marker) ==
    LET trimmed == Strip(lines[k])
    IN  JoinedBySpace(<<SubSeq(trimmed, Len(marker) + 1, Len(trimmed))>>
                          \o SubSeq(lines, k + 1, Len(lines)))

\* C23: the non-marker, non-empty lines that follow a marker line are
\* appended to the marker's field, joined by one space, in their order and
\* once each (stated for the last marker line of the content, which no
\* later marker follows).
ContinuationIsAppended ==
    parser.returned =>
        LET lines == Split(parser.content)
        IN  \A k \in 1 .. Len(lines) :
                /\ ContinuedFrom(lines, k, ProsMarker) =>
                      parser.result.pros =
                          MarkerAndContinuation(lines, k, ProsMarker)
                /\ ContinuedFrom(lines, k, ConsMarker) =>
                      parser.result.cons =
                          MarkerAndContinuation(lines, k, ConsMarker)
                /\ ContinuedFrom(lines, k, OverallMarker) =>
                      parser.result.overall_review =
                          MarkerAndContinuation(lines, k, OverallMarker)
                /\ ContinuedFrom(lines, k, OverallReviewMarker) =>
                      parser.result.overall_review =
                          MarkerAndContinuation(lines, k, OverallReviewMarker)

(***************************************************************************)
(* Properties of ConcurrentScraper                                         *)
(***************************************************************************)
\* the jobs whose scrape raised
Failing == {j \in Jobs : batch.tasks[j].outcome = "raised"}

\* the tasks inside `async with self.semaphore`
SlotHolders == {j \in Jobs : batch.tasks[j].slot}

\* C13: a batch of N URLs of which the jobs in F raise ends with N - |F|
\* results and |F| errors, one error per failing job with that job's URL
\* and the unaltered result of every other job; every job has run to its
\* end.
BatchSortsOutcomes ==
    batch.pc = "returned" =>
        /\ \A j \in Jobs : batch.tasks[j].pc = "done"
        /\ Len(batch.results) = Len(batch.urls) - Cardinality(Failing)
        /\ Len(batch.errors) = Cardinality(Failing)
        /\ \A j \in Failing :
              Cardinality({k \in 1 .. Len(batch.errors) :
                              batch.errors[k] = Error(batch.urls[j])}) = 1
        /\ \A j \in Jobs \ Failing :
              Cardinality({k \in 1 .. Len(batch.results) :
                              batch.results[k] = Result(batch.urls[j])}) = 1

\* a batch of four jobs with two workers returned three results and the
\* error of job 3
ThirdJobFailed ==
    /\ batch.pc = "returned"
    /\ batch.max_workers = 2
    /\ Len(batch.urls) = 4
    /\ Failing = {3}
    /\ batch.errors = <<Error(batch.urls[3])>>
    /\ Len(batch.results) = 3

\* every task is done, every slot is free and nobody queues for one
BatchOver ==
    /\ batch.pc = "returned"
    /\ \A j \in Jobs : batch.tasks[j].pc = "done"
    /\ batch.semaphore = batch.max_workers
    /\ batch.waiters = <<>>
    /\ SlotHolders = {}

\* C14: every batch comes to its end, whichever jobs raise: every job
\* returned or raised, all max_workers slots are free again and no task
\* waits for one.
BatchCompletes == <>[]BatchOver

\* a batch of several jobs and one worker is over although its first job
\* raised
OverAfterFailure ==
    /\ BatchOver
    /\ batch.max_workers = 1
    /\ Len(batch.urls) >= 2
    /\ 1 \in Failing
    /\ Failing # Jobs

\* C15: at most max_workers tasks are inside the semaphore, and the free
\* slots and the held slots add up to max_workers.
AtMostMaxWorkers ==
    /\ Cardinality(SlotHolders) <= batch.max_workers
    /\ batch.semaphore >= 0
    /\ batch.semaphore + Cardinality(SlotHolders) = batch.max_workers

\* both slots of a two-worker batch are held while two more tasks queue
AllSlotsHeld ==
    /\ batch.max_workers = 2
    /\ Cardinality(SlotHolders) = 2
    /\ Len(batch.waiters) = 2

\* C16: a job scrapes only after acquire returned True, reports at most
\* once, has reported once, with the flag success, when it gives its slot
\* back, and its flag is True iff its scrape returned.
ReportsOncePerJob ==
    \A j \in Jobs :
        LET task == batch.tasks[j]
        IN  /\ task.pc \in {"scrape", "resume"} => task.token
            /\ task.outcome # "none" => task.token
            /\ task.reports <= 1
            /\ task.pc = "release" => task.slot /\ task.reports = 1
            /\ (task.token /\ ~task.slot) => task.reports = 1
            /\ task.pc = "done" =>
                  /\ task.reports = 1
                  /\ task.flag = (task.outcome = "returned")
                  /\ task.outcome \in {"returned", "raised"}

\* a job that raised has reported False and still holds its slot, next to
\* a job that returned and reported True
ReportedBeforeRelease ==
    \E j, k \in Jobs :
        /\ batch.tasks[j].pc = "release"
        /\ batch.tasks[j].outcome = "raised"
        /\ batch.tasks[j].reports = 1
        /\ ~batch.tasks[j].flag
        /\ batch.tasks[j].slot
        /\ batch.tasks[k].pc = "done"
        /\ batch.tasks[k].flag

(***************************************************************************)
(* Properties of TokenBucketRateLimiter under several threads              *)
(***************************************************************************)
\* C17: the mutations of the limiter are mutually exclusive: no
\* record_request update of the counters and rates happens while another
\* thread is inside the with block of acquire, between taking the lock
\* and its refill-and-consume step.
RecordsAreExclusive ==
    [][(\/ rate_limiter'.success_count # rate_limiter.success_count
        \/ rate_limiter'.error_count # rate_limiter.error_count) =>
          /\ rate_limiter.lock = 0
          /\ \A t \in Threads : threads[t].pc # "locked"]_vars

\* C18: acquire(timeout), timeout >= 0: a check that finds a token consumes
\* exactly one and returns True; a check returns False only without a token
\* and past the timeout, consuming nothing; and no check that finds no
\* token once the timeout has elapsed sends the caller back to sleep.
AcquireHonoursTimeout ==
    /\ [](\A t \in Threads :
            /\ threads[t].pc = "granted" =>
                  /\ RLeq(Rat(1, 1), threads[t].seen)
                  /\ threads[t].left = RMinusOne(threads[t].seen)
            /\ threads[t].pc = "timed_out" =>
                  /\ RLess(threads[t].seen, Rat(1, 1))
                  /\ threads[t].left = threads[t].seen
                  /\ threads[t].waited > threads[t].timeout)
    /\ [][\A t \in Threads :
            (threads[t].pc = "locked" /\ threads'[t].pc = "sleep") =>
                threads[t].waited <= threads[t].timeout]_vars

(***************************************************************************)
(* Properties of scrape_product's outcome                                  *)
(***************************************************************************)
\* the walk found no reviews: no entry point, or an empty first page
ZeroReviews ==
    \/ scraper.reason = "no entry"
    \/ scraper.reason = "empty page" /\ scraper.current_page = 1

\* C19: a target without reviews (no entry point, or an empty first page)
\* makes scrape_product return a result with 0 review pages and 0 reviews;
\* a failed page.goto makes it raise to its caller, with no result built
\* and no page extracted.
ZeroReviewsIsNotFailure ==
    /\ (ZeroReviews /\ scraper.pc = "done") =>
          /\ scraper.outcome = "returned"
          /\ scraper.reviews = <<>>
          /\ scraper.metadata = [total_review_pages |-> 0, total_reviews |-> 0]
    /\ ZeroReviews => scraper.pc \in {"result", "done"}
    /\ scraper.reason = "navigation failed" =>
          /\ scraper.pc \in {"except", "done"}
          /\ scraper.outcome # "returned"
          /\ scraper.pc = "done" => scraper.outcome = "raised"
          /\ walk_log.extracts = <<>>
          /\ ~walk_log.entered

\* a job raised to its caller because page.goto failed, after the failure
\* was reported to the rate limiter
RaisedOnNavigation ==
    /\ scraper.pc = "done"
    /\ scraper.reason = "navigation failed"
    /\ scraper.outcome = "raised"
    /\ limiter_call.op = "failure"

(***************************************************************************)
(* Properties of the adaptive adjustment                                   *)
(***************************************************************************)
\* the observations recorded so far, and whether the ratios of the full
\* history exceed their thresholds
Observations == rate_limiter.success_count + rate_limiter.error_count

SuccessRatioHigh ==
    RLess(rate_limiter.config.success_threshold,
          Rat(rate_limiter.success_count, Observations))

ErrorRatioHigh ==
    RLess(rate_limiter.config.error_threshold,
          Rat(rate_limiter.error_count, Observations))

\* min(current_rate * 1.1, 2 * baseline) and max(current_rate * 0.5,
\* 0.1 * baseline) of the rate before the call
RaisedRate ==
    RMin(RMul(limiter_call.before.current_rate, 11, 10),
         RMul(rate_limiter.config.requests_per_second, 2, 1))

LoweredRate ==
    RMax(RMul(limiter_call.before.current_rate, 1, 2),
         RMul(rate_limiter.config.requests_per_second, 1, 10))

\* a record_request call was made on an adaptive limiter that holds at
\* least 10 observations
Adjusting ==
    /\ limiter_call.op # "none"
    /\ rate_limiter.config.adaptive
    /\ Observations >= MinObservations

\* C20 as stated: with 10 observations or more every record_request call,
\* success or failure, tests both thresholds: the rate is raised when the
\* success ratio is high, lowered when the error ratio is high, and
\* unchanged otherwise.
BothThresholdsEveryCall ==
    Adjusting =>
        rate_limiter.current_rate =
            IF SuccessRatioHigh THEN RaisedRate
            ELSE IF ErrorRatioHigh THEN LoweredRate
            ELSE limiter_call.before.current_rate

\* C20 as amended: with 10 observations or more a call that reports a
\* success tests the success threshold only, and a call that reports a
\* failure the error threshold only; the rate is raised, or lowered, when
\* that ratio of the full history exceeds its threshold and is unchanged
\* otherwise.
ThresholdOfTheOutcome ==
    Adjusting =>
        /\ limiter_call.op = "success" =>
              rate_limiter.current_rate =
                  IF SuccessRatioHigh THEN RaisedRate
                  ELSE limiter_call.before.current_rate
        /\ limiter_call.op = "failure" =>
              rate_limiter.current_rate =
                  IF ErrorRatioHigh THEN LoweredRate
                  ELSE limiter_call.before.current_rate

\* a success was recorded while the error ratio was above its threshold,
\* and the rate, lowered before, stayed as it was
SuccessLeavesRate ==
    /\ Adjusting
    /\ limiter_call.op = "success"
    /\ ErrorRatioHigh
    /\ rate_limiter.current_rate = limiter_call.before.current_rate
    /\ RLess(rate_limiter.current_rate, rate_limiter.config.requests_per_second)

\* C21: while fewer than 10 observations are recorded, current_rate and
\* refill_rate are the configured requests_per_second, whatever the
\* outcomes were.
NoAdjustmentBelowMinimum ==
    Observations < MinObservations =>
        /\ rate_limiter.current_rate = rate_limiter.config.requests_per_second
        /\ rate_limiter.refill_rate = rate_limiter.config.requests_per_second

\* the call that recorded the 10th observation changed the rate
TenthObservationAdjusts ==
    /\ limiter_call.op # "none"
    /\ Observations = MinObservations
    /\ limiter_call.before.current_rate =
          rate_limiter.config.requests_per_second
    /\ rate_limiter.current_rate # rate_limiter.config.requests_per_second

\* C22: with adaptive = False a record_request call leaves every field of
\* the limiter as it was.
NonAdaptiveRecordIsNoOp ==
    [][(/\ limiter_call'.records # limiter_call.records
        /\ ~rate_limiter.config.adaptive) =>
            rate_limiter' = rate_limiter]_vars

\* a limiter without adaptive mode was told of a failure after tokens had
\* been taken from its bucket
NonAdaptiveRecorded ==
    /\ ~rate_limiter.config.adaptive
    /\ limiter_call.op = "failure"
    /\ RLess(rate_limiter.tokens, Rat(rate_limiter.config.burst_size, 1))
    /\ rate_limiter.error_count = 0

\* C30: refill_rate equals current_rate in every state of the limiter.
RefillsAtCurrentRate ==
    rate_limiter.refill_rate = rate_limiter.current_rate

\* both rates were lowered together
RefillRateLowered ==
    /\ rate_limiter.refill_rate = rate_limiter.current_rate
    /\ limiter_call.op = "failure"
    /\ RLess(rate_limiter.refill_rate, limiter_call.before.refill_rate)

(***************************************************************************)
(* Properties of the pacing of the walk                                    *)
(***************************************************************************)
\* a _rate_limited_delay returns in this step
PacingReturns == scraper.pc = "pace" /\ scraper'.pc # "pace"

\* C24: every call of _extract_page_reviews comes after a pacing step made
\* since the previous call, or since the review section was entered; a
\* pacing step is an acquire that returned, followed by the sleep of the
\* adaptive delay when the token was granted.
PacedBeforeExtraction ==
    [][/\ Len(walk_log'.extracts) > Len(walk_log.extracts) => walk_log.paced
       /\ (walk_log'.paced /\ ~walk_log.paced) =>
              /\ PacingReturns
              /\ threads[Job].pc \in {"granted", "timed_out"}
              /\ threads[Job].pc = "granted" =>
                    /\ walk_log'.wait = "adaptive"
                    /\ adaptive_delay'.success_count =
                          adaptive_delay.success_count + 1]_vars

\* the second page was extracted after a pacing step that slept the
\* adaptive delay
SecondPagePaced ==
    /\ walk_log.extracts = <<1, 2>>
    /\ walk_log.wait = "adaptive"
    /\ Len(scraper.all_reviews) = 2

\* C26: a pacing step whose acquire timed out sleeps the fixed wait and
\* hands the job on to the operation it was pacing: nothing is raised, the
\* job goes on running and the adaptive delay is not consulted.
TimeoutIsNotFatal ==
    [][(PacingReturns /\ threads[Job].pc = "timed_out") =>
          /\ scraper'.pc = scraper.ret
          /\ scraper'.pc \notin {"except", "result", "done"}
          /\ scraper'.outcome = "running"
          /\ scraper'.all_reviews = scraper.all_reviews
          /\ walk_log'.wait = "fixed"
          /\ adaptive_delay' = adaptive_delay]_vars

\* the second page is extracted after a pacing step that timed out
ExtractsAfterTimeout ==
    /\ scraper.pc = "extract"
    /\ scraper.current_page = 2
    /\ walk_log.wait = "fixed"
    /\ walk_log.paced

(***************************************************************************)
(* Properties of the order of the pages                                    *)
(***************************************************************************)
\* every item of page i of the sequence carries the page number i
InPageOrder(reviews) ==
    \A i \in 1 .. Len(reviews) :
        \A k \in 1 .. Len(reviews[i]) : reviews[i][k].page_number = i

\* C25: the pages are extracted one at a time with the page numbers 1, 2,
\* 3, .. in this order, none twice and none skipped, and page i of the
\* collected and of the returned sequence holds only items of page i.
PagesInOrder ==
    /\ walk_log.extracts = Pages(Len(walk_log.extracts))
    /\ scraper.pc = "extract" =>
          scraper.current_page = Len(walk_log.extracts) + 1
    /\ Len(scraper.all_reviews) <= Len(walk_log.extracts)
    /\ InPageOrder(scraper.all_reviews)
    /\ InPageOrder(scraper.reviews)

\* a job returned two pages, the second of them without its first item
TwoPagesReturned ==
    /\ scraper.outcome = "returned"
    /\ walk_log.extracts = <<1, 2>>
    /\ Len(scraper.reviews) = 2
    /\ scraper.reviews[2] = <<Review(2, 2)>>

(***************************************************************************)
(* Properties of the faults of the walk                                    *)
(***************************************************************************)
\* _extract_page_reviews returns in this step
ExtractionReturns ==
    /\ Len(walk_log'.extracts) > Len(walk_log.extracts)
    /\ scraper'.pc # "except"

\* the page holds the items of the positions in kept, each once, in the
\* order of the positions
HoldsItems(page, kept) ==
    /\ Len(page) = Cardinality(kept)
    /\ \A k \in 1 .. Len(page) : page[k].review_index \in kept
    /\ \A k \in 1 .. Len(page) - 1 :
          page[k].review_index < page[k + 1].review_index

\* C27: an item whose extraction raises is left out and the other items of
\* the page are returned in their order with their positions; failures of
\* items alone do not end the walk before the pages that remain.
ItemFaultsAreSkipped ==
    [][(ExtractionReturns /\ walk_log'.elements > 0) =>
          /\ scraper'.all_reviews # scraper.all_reviews =>
                HoldsItems(scraper'.all_reviews[Len(scraper'.all_reviews)],
                           (1 .. walk_log'.elements) \ walk_log'.raising)
          /\ walk_log'.raising # 1 .. walk_log'.elements =>
                scraper'.all_reviews # scraper.all_reviews
          /\ scraper'.reason # "empty page"]_vars

\* C28: once the review section is entered no fault of the page leaves the
\* walk: the job raises nothing, reports no failure, and returns the pages
\* it collected.
WalkFaultsAreContained ==
    walk_log.entered =>
        /\ scraper.pc # "except"
        /\ scraper.outcome # "raised"
        /\ scraper.outcome = "returned" =>
              /\ scraper.reviews = scraper.all_reviews
              /\ limiter_call.op = "success"

(***************************************************************************)
(* Properties of _navigate_to_next_page                                    *)
(***************************************************************************)
\* _navigate_to_next_page has clicked or has found nothing to click
NavigationDecides ==
    /\ scraper.pc = "next"
    /\ scraper'.pc \in {"clicked", "result"}

\* the pagination shows a control labelled with the active number + 1
HasNumbered(page) ==
    /\ page.active # <<>>
    /\ page.active[1].numeric
    /\ \E i \in 1 .. Len(page.items) :
          page.items[i] = Number(page.active[1].value + 1)

\* C29: the next control is clicked when it is there and not disabled;
\* only without it the control labelled with the active number + 1 is
\* clicked; the navigation succeeds exactly when one control was clicked,
\* and when there is neither control nothing is clicked and the walk ends
\* with the reason 'no next page'.
NextThenNumbered ==
    [][NavigationDecides =>
          LET page == walk_log'.pagination
              clicked == walk_log'.clicked
          IN  /\ page.next = "enabled" => clicked = <<Control("next", 0)>>
              /\ (page.next # "enabled" /\ HasNumbered(page)) =>
                    clicked =
                        <<Control("numbered", page.active[1].value + 1)>>
              /\ (page.next # "enabled" /\ ~HasNumbered(page)) =>
                    clicked = <<>>
              /\ scraper'.pc = "clicked" <=> Len(clicked) = 1
              /\ clicked = <<>> =>
                    /\ scraper'.pc = "result"
                    /\ scraper'.reason = "no next page"
                    /\ scraper'.reviews = scraper.all_reviews]_vars

\* the numbered control was clicked on a page whose next control is
\* disabled and whose first pagination item is no number
NumberedClicked ==
    /\ scraper.pc = "clicked"
    /\ walk_log.pagination.next = "disabled"
    /\ walk_log.pagination.items = <<NotANumber, Number(2)>>
    /\ walk_log.clicked = <<Control("numbered", 2)>>

====
